---- MODULE Spec2Model ----
(***************************************************************************)
(* Verification model of the food-nutrition frontend:                      *)
(*   - the payment orchestration of DirectSubscriptionForm and of the      *)
(*     checkout page (CheckoutContent), specification SpecPay;             *)
(*   - the HTTP client wrapper ApiClient.request, specification SpecClient;*)
(*   - the auth state hook useAuth with browser storage and the ApiClient  *)
(*     singleton, specification SpecAuth;                                  *)
(*   - the admin hook useAdmin and the Header, each with a useAuth         *)
(*     instance of its own, specification SpecAdmin;                       *)
(*   - the dashboard and admin pages that load on mount and mutate,        *)
(*     specification SpecPages;                                            *)
(*   - the hosted-checkout SubscribeModal, specification SpecModal;        *)
(*   - the auto-refreshing admin pages, specification SpecRefresh;         *)
(*   - BillingDashboard under the StripeProvider, specification            *)
(*     SpecBilling.                                                        *)
(* Every async handler is cut at its awaits: one action up to the first    *)
(* await, and one action per resolution of each awaited promise.           *)
(***************************************************************************)
EXTENDS Integers, Sequences, FiniteSets, TLC

\* null / undefined of the source
None == "<none>"

(***************************************************************************)
(* Bounds                                                                  *)
(***************************************************************************)
\* number of handler invocations of one form the model can hold at once
MaxInFlight == 2

\* calls of ApiClient.request followed
MaxRequests == 3

\* API keys shown by ApiKeysPage
MaxKeys == 3

\* checkout-session calls awaited at the same time
MaxSessions == 2

\* createSubscription calls of the checkout page followed
MaxSubscribeCalls == 2

\* loads an auto-refreshing page starts while it is mounted
MaxLoads == 3

\* runs of the BillingDashboard effect followed after one mount
MaxEffectRuns == 2

(***************************************************************************)
(* src/lib/stripe/config.ts                                                *)
(***************************************************************************)
CARD_DECLINED == "Your card was declined. Please try a different payment method."
INSUFFICIENT_FUNDS == "Your card has insufficient funds. Please try a different payment method."
EXPIRED_CARD == "Your card has expired. Please try a different payment method."
INCORRECT_CVC == "Your card's security code is incorrect. Please try again."
NETWORK_ERROR == "A network error occurred. Please check your connection and try again."
GENERIC_ERROR == "Something went wrong. Please try again."

\* errors the payment SDK reports: { type, code?, message? }
StripeErrors ==
    [type : {"card_error", "validation_error", "api_error", "invalid_request_error"},
     code : {"card_declined", "insufficient_funds", "expired_card", "incorrect_cvc",
             "processing_error", None},
     message : {"Your card number is incomplete.", "", None}]

\* x || y on strings
OrElse(x, y) == IF x = None \/ x = "" THEN y ELSE x

\* null or undefined: a state not set yet, an optional field left out
Absent == [present |-> FALSE]

Present(v) == [present |-> TRUE, value |-> v]

\* field || fallback, for an optional field
Default(field, fallback) == IF field.present THEN field.value ELSE fallback

getErrorMessageOwnMessage(error) ==
    IF error.type = "card_error" THEN
        CASE error.code = "card_declined" -> CARD_DECLINED
          [] error.code = "insufficient_funds" -> INSUFFICIENT_FUNDS
          [] error.code = "expired_card" -> EXPIRED_CARD
          [] error.code = "incorrect_cvc" -> INCORRECT_CVC
          [] OTHER -> OrElse(error.message, GENERIC_ERROR)
    ELSE OrElse(error.message, NETWORK_ERROR)

getErrorMessageNoTable(error) ==
    IF error.type = "api_error" THEN NETWORK_ERROR
    ELSE IF error.type \in {"card_error", "validation_error"}
         THEN OrElse(error.message, GENERIC_ERROR)
    ELSE GENERIC_ERROR

\* getErrorMessage for an SDK error object (a plain object, not an Error)
getErrorMessage(error) ==
    IF error.type = "card_error" THEN
        CASE error.code = "card_declined" -> CARD_DECLINED
          [] error.code = "insufficient_funds" -> INSUFFICIENT_FUNDS
          [] error.code = "expired_card" -> EXPIRED_CARD
          [] error.code = "incorrect_cvc" -> INCORRECT_CVC
          [] OTHER -> OrElse(error.message, GENERIC_ERROR)
    ELSE IF error.type = "validation_error" THEN OrElse(error.message, GENERIC_ERROR)
    ELSE IF error.type = "api_error" THEN NETWORK_ERROR
    ELSE GENERIC_ERROR

(***************************************************************************)
(* Payment forms: shared inputs                                            *)
(***************************************************************************)
Slots == 1..MaxInFlight

\* what stripe.createPaymentMethod resolves or rejects with, other than a
\* payment method: an SDK error, neither error nor method, or a rejection
\* with a value that is not an Error
TokenizeFailures == [kind : {"sdk_error"}, error : StripeErrors]
                    \cup {[kind |-> "no_method"], [kind |-> "rejected"]}

\* bodies of a 2xx answer of POST /subscriptions: { client_secret? }
SubscriptionResponses == [client_secret : {None, "", "pi_1_secret"}]

\* messages of the Error StripeAPI.request throws (detail, HTTP status, fetch)
SubscriptionFailures == {"Payment method could not be attached", "HTTP 500", "Failed to fetch"}

\* what stripe.confirmCardPayment resolves with: { error } or { paymentIntent }
ConfirmResults == [kind : {"error"}, error : StripeErrors]
                  \cup [kind : {"intent"}, status : {"succeeded", "requires_action", "processing"}]

Pending == "<pending>"

\* one invocation of a submit handler: its position, its locals (the
\* client_secret of subscriptionResponse, whether paymentIntent.status was
\* requires_action) and the calls it has made
NewInvocation == [pc |-> "idle", secret |-> Pending, reqAction |-> FALSE,
                  subCalls |-> 0, confirmCalls |-> 0, tokErr |-> [kind |-> "none"]]

Active(inv) == inv.pc \in {"tokenizing", "subscribing", "confirming", "confirming3ds"}

AnyFree(invs) == \E s \in Slots : ~Active(invs[s])

FreeSlot(invs) == CHOOSE s \in Slots : ~Active(invs[s]) /\ \A t \in Slots : t < s => Active(invs[t])

needsConfirmationAlways(resp) == TRUE

\* if (subscriptionResponse.client_secret)
needsConfirmation(resp) == resp.client_secret \notin {None, ""}

SubscriptionRequestWithKey(planId, paymentMethodId) ==
    [plan_id |-> planId, payment_method_id |-> paymentMethodId, idempotency_key |-> paymentMethodId]

\* the body of POST /subscriptions: JSON.stringify({ plan_id, payment_method_id })
SubscriptionRequest(planId, paymentMethodId) ==
    [plan_id |-> planId, payment_method_id |-> paymentMethodId]

\* message the catch block derives from what tokenization produced
TokenizeFailureMessage(f) ==
    IF f.kind = "no_method" THEN "Failed to create payment method"
    ELSE IF f.kind = "rejected" THEN "An unexpected error occurred"
    ELSE getErrorMessage(f.error)

VARIABLES
    \* payment forms
    stripe,
    dStep, dIsLoading, dError, dInv,
    kStep, kIsLoading, kPlanDetails, kIsProcessing, kError, kSuccess, kInv, kSubRequests,
    \* ApiClient.request
    cOutcome, cResult, requestCalls, fetchCalls,
    \* browser storage, ApiClient singleton, useAuth
    storage, clientToken, clientApiKey,
    authPc, user, loading, error, whoamiCalls,
    loginPc, refreshPc, refreshResult,
    loginResult, registerPc, registerResult, updatePc, updateResult,
    \* useAdmin and the useAuth instance it owns
    aPc, authUser, adminState, nav,
    \* the dashboard pages: the page shown, its load, its state
    pgPage, pgPc, pgReads, pgIsLoading, pgError,
    stats, apiKeys, userPlan, billingInfo, invoices, settings,
    \* the mutating call in flight and AdminSettingsPage's edit state
    mutPc, editingKey, editValue, saving, portalUrl,
    \* SubscribeModal (hosted checkout) and the browser's location
    mOpen, mPlan, mStep, mIsProcessing, mError, mInFlight, mRequest, mReported, location,
    \* the auto-refreshing admin pages: AnalyticsDashboard and APIMonitoring
    rPage, timeRange, autoRefresh, rTimers, rLoads, rData, rIsLoading, rError,
    \* BillingDashboard and the StripeProvider above it
    bdMounted, bdDirty, bdRuns, bdLoading, bdPending, bdError

dVars == <<dStep, dIsLoading, dError, dInv>>
kVars == <<kStep, kIsLoading, kPlanDetails, kIsProcessing, kError, kSuccess, kInv, kSubRequests>>
payVars == <<stripe, dVars, kVars>>
clientVars == <<cOutcome, cResult, requestCalls, fetchCalls>>
\* position and return value of login, register and updateProfile
callVars == <<loginPc, loginResult, registerPc, registerResult, updatePc, updateResult>>
authVars == <<storage, clientToken, clientApiKey, authPc, user, loading, error, whoamiCalls,
              refreshPc, refreshResult, callVars>>
adminVars == <<aPc, authUser, adminState, nav>>
pgData == <<stats, apiKeys, userPlan, billingInfo, invoices, settings>>
mutVars == <<mutPc, editingKey, editValue, saving, portalUrl>>
pageVars == <<pgPage, pgPc, pgReads, pgIsLoading, pgError, pgData, mutVars>>
modalVars == <<mOpen, mPlan, mStep, mIsProcessing, mError, mInFlight, mRequest, mReported,
               location>>
refreshVars == <<rPage, timeRange, autoRefresh, rTimers, rLoads, rData, rIsLoading, rError>>
billingVars == <<bdMounted, bdDirty, bdRuns, bdLoading, bdPending, bdError>>
nonPayVars == <<clientVars, authVars, adminVars, pageVars, modalVars, refreshVars, billingVars>>
nonClientVars == <<payVars, authVars, adminVars, pageVars, modalVars, refreshVars, billingVars>>
nonAuthVars == <<payVars, clientVars, adminVars, pageVars, modalVars, refreshVars, billingVars>>
nonAdminVars == <<payVars, clientVars, authVars, pageVars, modalVars, refreshVars, billingVars>>
nonPageVars == <<payVars, clientVars, authVars, adminVars, modalVars, refreshVars, billingVars>>
nonModalVars == <<payVars, clientVars, authVars, adminVars, pageVars, refreshVars, billingVars>>
nonRefreshVars == <<payVars, clientVars, authVars, adminVars, pageVars, modalVars, billingVars>>
nonBillingVars == <<payVars, clientVars, authVars, adminVars, pageVars, modalVars, refreshVars>>
vars == <<payVars, clientVars, authVars, adminVars, pageVars, modalVars, refreshVars, billingVars>>

InitPay ==
    /\ stripe = FALSE
    /\ dStep = "card" /\ dIsLoading = FALSE /\ dError = None
    /\ dInv = [s \in Slots |-> NewInvocation]
    /\ kStep = "details" /\ kIsLoading = TRUE /\ kPlanDetails = FALSE
    /\ kIsProcessing = FALSE /\ kError = None /\ kSuccess = FALSE
    /\ kInv = [s \in Slots |-> NewInvocation]
    /\ kSubRequests = <<>>

\* useStripe()/useElements() return null until the SDK has loaded
StripeLoaded ==
    /\ ~stripe
    /\ stripe' = TRUE
    /\ UNCHANGED <<nonPayVars, dVars, kVars>>

(***************************************************************************)
(* DirectSubscriptionForm                                                  *)
(***************************************************************************)
D_SubmitEnabledNoDisable == stripe /\ dStep \notin {"success", "confirming"}

\* the form is rendered (step card or processing) and its submit button is
\* enabled: disabled={!stripe || isLoading}
D_SubmitEnabled == stripe /\ ~dIsLoading /\ dStep \notin {"success", "confirming"}

D_CatchKeepStep(s, inv, msg) ==
    /\ dError' = msg
    /\ dIsLoading' = FALSE
    /\ dInv' = [dInv EXCEPT ![s] = [inv EXCEPT !.pc = "failed"]]
    /\ UNCHANGED dStep

\* catch (err) { setError; onError; setStep('card') } finally { setIsLoading(false) }
D_Catch(s, inv, msg) ==
    /\ dError' = msg
    /\ dStep' = "card"
    /\ dIsLoading' = FALSE
    /\ dInv' = [dInv EXCEPT ![s] = [inv EXCEPT !.pc = "failed"]]

\* setStep('success'); onSuccess(); finally { setIsLoading(false) }
D_Succeed(s, inv) ==
    /\ dStep' = "success"
    /\ dIsLoading' = FALSE
    /\ dInv' = [dInv EXCEPT ![s] = [inv EXCEPT !.pc = "succeeded"]]
    /\ UNCHANGED dError

\* handleSubmit up to the await of createPaymentMethod
D_Submit ==
    /\ D_SubmitEnabled
    /\ AnyFree(dInv)
    /\ LET s == FreeSlot(dInv) IN
       \E cardElement \in BOOLEAN :
          IF cardElement
          THEN /\ dIsLoading' = TRUE
               /\ dError' = None
               /\ dStep' = "processing"
               /\ dInv' = [dInv EXCEPT ![s] = [NewInvocation EXCEPT !.pc = "tokenizing"]]
          ELSE \* throw new Error('Card element not found'), caught in the same turn
               /\ dIsLoading' = FALSE
               /\ dError' = "Card element not found"
               /\ dStep' = "card"
               /\ dInv' = [dInv EXCEPT ![s] = [NewInvocation EXCEPT !.pc = "failed"]]
    /\ UNCHANGED <<nonPayVars, stripe, kVars>>

\* createPaymentMethod resolved with a payment method: createSubscription is called
D_TokenizeOk(s) ==
    /\ dInv[s].pc = "tokenizing"
    /\ dStep' = "confirming"
    /\ dInv' = [dInv EXCEPT ![s].pc = "subscribing", ![s].subCalls = 1]
    /\ UNCHANGED <<nonPayVars, stripe, dIsLoading, dError, kVars>>

D_TokenizeFail(s) ==
    /\ dInv[s].pc = "tokenizing"
    /\ \E f \in TokenizeFailures :
          D_Catch(s, [dInv[s] EXCEPT !.tokErr = f], TokenizeFailureMessage(f))
    /\ UNCHANGED <<nonPayVars, stripe, kVars>>

\* createSubscription resolved
D_SubscribeOk(s) ==
    /\ dInv[s].pc = "subscribing"
    /\ \E resp \in SubscriptionResponses :
          IF needsConfirmation(resp)
          THEN /\ dInv' = [dInv EXCEPT ![s].pc = "confirming",
                                       ![s].secret = resp.client_secret,
                                       ![s].confirmCalls = 1]
               /\ UNCHANGED <<dStep, dIsLoading, dError>>
          ELSE D_Succeed(s, [dInv[s] EXCEPT !.secret = resp.client_secret])
    /\ UNCHANGED <<nonPayVars, stripe, kVars>>

D_SubscribeFail(s) ==
    /\ dInv[s].pc = "subscribing"
    /\ \E msg \in SubscriptionFailures : D_Catch(s, dInv[s], msg)
    /\ UNCHANGED <<nonPayVars, stripe, kVars>>

\* confirmCardPayment resolved: only { error } is read
D_ConfirmDone(s) ==
    /\ dInv[s].pc = "confirming"
    /\ \E r \in ConfirmResults :
          IF r.kind = "error"
          THEN D_Catch(s, dInv[s], getErrorMessage(r.error))
          ELSE D_Succeed(s, [dInv[s] EXCEPT !.reqAction = (r.status = "requires_action")])
    /\ UNCHANGED <<nonPayVars, stripe, kVars>>

(***************************************************************************)
(* CheckoutContent                                                         *)
(***************************************************************************)
\* loadPlanDetails of the mount effect
K_LoadPlan ==
    /\ kIsLoading
    /\ \E ok \in BOOLEAN :
          /\ kPlanDetails' = ok
          /\ kError' = IF ok THEN kError ELSE "Failed to load plan details"
    /\ kIsLoading' = FALSE
    /\ UNCHANGED <<nonPayVars, stripe, dVars, kStep, kIsProcessing, kSuccess, kInv, kSubRequests>>

\* the form is rendered (plan loaded, not yet successful) and its submit
\* button is enabled: disabled={!stripe || isProcessing}
K_SubmitEnabled == stripe /\ ~kIsLoading /\ kPlanDetails /\ ~kSuccess /\ ~kIsProcessing

\* catch (err) { setError; setStep('payment') } finally { setIsProcessing(false) }
K_Catch(s, inv, msg) ==
    /\ kError' = msg
    /\ kStep' = "payment"
    /\ kIsProcessing' = FALSE
    /\ kInv' = [kInv EXCEPT ![s] = [inv EXCEPT !.pc = "failed"]]
    /\ UNCHANGED kSuccess

\* setStep('success'); setSuccess(true); finally { setIsProcessing(false) }
K_Succeed(s, inv) ==
    /\ kStep' = "success"
    /\ kSuccess' = TRUE
    /\ kIsProcessing' = FALSE
    /\ kInv' = [kInv EXCEPT ![s] = [inv EXCEPT !.pc = "succeeded"]]
    /\ UNCHANGED kError

\* handlePaymentSubmit up to the await of createPaymentMethod
K_Submit ==
    /\ K_SubmitEnabled
    /\ Len(kSubRequests) < MaxSubscribeCalls
    /\ AnyFree(kInv)
    /\ LET s == FreeSlot(kInv) IN
       \E cardElement \in BOOLEAN :
          IF cardElement
          THEN /\ kIsProcessing' = TRUE
               /\ kError' = None
               /\ kStep' = "payment"
               /\ kInv' = [kInv EXCEPT ![s] = [NewInvocation EXCEPT !.pc = "tokenizing"]]
          ELSE /\ kIsProcessing' = FALSE
               /\ kError' = "Card element not found"
               /\ kStep' = "payment"
               /\ kInv' = [kInv EXCEPT ![s] = [NewInvocation EXCEPT !.pc = "failed"]]
    /\ UNCHANGED <<nonPayVars, stripe, dVars, kIsLoading, kPlanDetails, kSuccess, kSubRequests>>

\* createPaymentMethod resolved with a payment method: the body of
\* createSubscription is POSTed; the backend sees it before it answers
K_TokenizeOk(s) ==
    /\ kInv[s].pc = "tokenizing"
    /\ kStep' = "processing"
    /\ kSubRequests' = Append(kSubRequests,
          [body |-> SubscriptionRequest(1, Len(kSubRequests) + 1), answered |-> FALSE])
    /\ kInv' = [kInv EXCEPT ![s].pc = "subscribing", ![s].subCalls = 1]
    /\ UNCHANGED <<nonPayVars, stripe, dVars, kIsLoading, kPlanDetails, kIsProcessing, kError, kSuccess>>

K_TokenizeFail(s) ==
    /\ kInv[s].pc = "tokenizing"
    /\ \E f \in TokenizeFailures :
          K_Catch(s, [kInv[s] EXCEPT !.tokErr = f], TokenizeFailureMessage(f))
    /\ UNCHANGED <<nonPayVars, stripe, dVars, kIsLoading, kPlanDetails, kSubRequests>>

K_SubscribeOk(s) ==
    /\ kInv[s].pc = "subscribing"
    /\ kSubRequests' = [kSubRequests EXCEPT ![Len(kSubRequests)].answered = TRUE]
    /\ \E resp \in SubscriptionResponses :
          IF needsConfirmation(resp)
          THEN /\ kInv' = [kInv EXCEPT ![s].pc = "confirming",
                                       ![s].secret = resp.client_secret,
                                       ![s].confirmCalls = 1]
               /\ UNCHANGED <<kStep, kIsProcessing, kError, kSuccess>>
          ELSE K_Succeed(s, [kInv[s] EXCEPT !.secret = resp.client_secret])
    /\ UNCHANGED <<nonPayVars, stripe, dVars, kIsLoading, kPlanDetails>>

K_SubscribeFail(s) ==
    /\ kInv[s].pc = "subscribing"
    /\ \E msg \in SubscriptionFailures : K_Catch(s, kInv[s], msg)
    /\ UNCHANGED <<nonPayVars, stripe, dVars, kIsLoading, kPlanDetails, kSubRequests>>

\* first confirmCardPayment resolved: { error, paymentIntent } are read
K_ConfirmDone(s) ==
    /\ kInv[s].pc = "confirming"
    /\ \E r \in ConfirmResults :
          IF r.kind = "error"
          THEN K_Catch(s, kInv[s], getErrorMessage(r.error))
          ELSE IF r.status = "requires_action"
          THEN \* second confirmCardPayment(client_secret)
               /\ kInv' = [kInv EXCEPT ![s].pc = "confirming3ds", ![s].reqAction = TRUE,
                                       ![s].confirmCalls = 2]
               /\ UNCHANGED <<kStep, kIsProcessing, kError, kSuccess>>
          ELSE K_Succeed(s, kInv[s])
    /\ UNCHANGED <<nonPayVars, stripe, dVars, kIsLoading, kPlanDetails, kSubRequests>>

\* second confirmCardPayment resolved: only { error } is read
K_ActionDone(s) ==
    /\ kInv[s].pc = "confirming3ds"
    /\ \E r \in ConfirmResults :
          IF r.kind = "error"
          THEN K_Catch(s, kInv[s], getErrorMessage(r.error))
          ELSE K_Succeed(s, kInv[s])
    /\ UNCHANGED <<nonPayVars, stripe, dVars, kIsLoading, kPlanDetails, kSubRequests>>

NextPay ==
    \/ StripeLoaded
    \/ D_Submit
    \/ \E s \in Slots : D_TokenizeOk(s)
    \/ \E s \in Slots : D_TokenizeFail(s)
    \/ \E s \in Slots : D_SubscribeOk(s)
    \/ \E s \in Slots : D_SubscribeFail(s)
    \/ \E s \in Slots : D_ConfirmDone(s)
    \/ K_LoadPlan
    \/ K_Submit
    \/ \E s \in Slots : K_TokenizeOk(s)
    \/ \E s \in Slots : K_TokenizeFail(s)
    \/ \E s \in Slots : K_SubscribeOk(s)
    \/ \E s \in Slots : K_SubscribeFail(s)
    \/ \E s \in Slots : K_ConfirmDone(s)
    \/ \E s \in Slots : K_ActionDone(s)

(***************************************************************************)
(* ApiClient.request (src/lib/api/client.ts)                               *)
(***************************************************************************)
CONNECTIVITY_MESSAGE == "Unable to connect to the server. Please check your internet connection."

HttpStatuses == {200, 201, 400, 401, 403, 404, 418, 422, 429, 500, 502, 503, 504}

\* response.ok
IsOk(status) == status >= 200 /\ status <= 299

\* what response.json() has to parse: a JSON object { detail?, code?, data? },
\* the JSON value null, or a body that is not JSON (a gateway's HTML page,
\* an empty body)
ResponseBodies == [kind : {"object"}, detail : {None, "Email already registered"},
                   code : {None, "E42"}, data : {None, "rows"}]
                  \cup {[kind |-> "null"], [kind |-> "not_json"]}

\* what fetch() rejects with when the request does not reach the server: a
\* TypeError whose message is the browser's (Chromium, Firefox, WebKit)
FetchErrors == {[name |-> "TypeError", message |-> "Failed to fetch"],
                [name |-> "TypeError", message |-> "NetworkError when attempting to fetch resource."],
                [name |-> "TypeError", message |-> "Load failed"]}

FetchOutcomes == [kind : {"throws"}, thrown : FetchErrors]
                 \cup [kind : {"response"}, status : HttpStatuses, body : ResponseBodies]

\* error.message.includes('fetch')
IncludesFetch(message) ==
    message \in {"Failed to fetch", "NetworkError when attempting to fetch resource."}

ApiError(message, status, details) ==
    [kind |-> "ApiError", message |-> message, status |-> status, details |-> details]

\* the switch over response.status, starting from data.detail || 'API request failed'
userMessage(status, detail) ==
    CASE status = 400 -> "Invalid request. Please check your input and try again."
      [] status = 401 -> "Please log in to continue."
      [] status = 403 -> "You don't have permission to perform this action."
      [] status = 404 -> "The requested resource was not found."
      [] status = 422 -> "Please check your input and try again."
      [] status = 429 -> "Too many requests. Please wait a moment and try again."
      [] status = 500 -> "Server error. Please try again later."
      [] status \in {502, 503, 504} -> "Service temporarily unavailable. Please try again later."
      [] OTHER -> OrElse(detail, "API request failed")

\* the catch block of request for an error that is not an ApiError
rethrow(thrown) ==
    IF thrown.name = "TypeError" /\ IncludesFetch(thrown.message)
    THEN ApiError(CONNECTIVITY_MESSAGE, 0, [thrown |-> thrown])
    ELSE ApiError(thrown.message, 0, [thrown |-> thrown])

\* request(endpoint, options) for one outcome of its fetch
request(o) ==
    IF o.kind = "throws" THEN rethrow(o.thrown)
    ELSE IF o.body.kind = "not_json"
         THEN rethrow([name |-> "SyntaxError",
                       message |-> "Unexpected token '<', \"<html>\" is not valid JSON"])
    ELSE IF o.body.kind = "null"
         THEN rethrow([name |-> "TypeError",
                       message |-> "Cannot read properties of null"])
    ELSE IF ~IsOk(o.status)
         THEN ApiError(userMessage(o.status, o.body.detail), o.status,
                       [detail |-> o.body.detail, code |-> o.body.code, data |-> o.body.data,
                        originalMessage |-> o.body.detail])
    ELSE [kind |-> "ok", status |-> o.status,
          data |-> IF o.body.data # None THEN [payload |-> o.body.data]
                   ELSE [payload |-> o.body]]

\* number of fetch calls request makes for one call: two when it retries a
\* failed fetch once
fetchCountRetrying(o) == IF o.kind = "throws" THEN 2 ELSE 1

\* number of fetch calls request makes for one call: the single await fetch,
\* outside any loop, with no cache in front of it
fetchCount(o) == 1

InitClient ==
    /\ cOutcome = [kind |-> "none"]
    /\ cResult = [kind |-> "none"]
    /\ requestCalls = 0
    /\ fetchCalls = 0

\* one call of apiClient.get/post/put/delete
ClientRequest ==
    /\ requestCalls < MaxRequests
    /\ \E o \in FetchOutcomes :
          /\ cOutcome' = o
          /\ cResult' = request(o)
          /\ fetchCalls' = fetchCalls + fetchCount(o)
    /\ requestCalls' = requestCalls + 1
    /\ UNCHANGED nonClientVars

NextClient == ClientRequest

(***************************************************************************)
(* Browser storage, the ApiClient singleton and useAuth                    *)
(* (src/lib/api/client.ts, use-auth hook in src/lib/api/admin.ts)          *)
(***************************************************************************)
AccessTokens == {"at1", "at2"}
Users == {"alice", "bob"}

\* a 2xx answer of the login and register endpoints: response.data
TokenResponses == [access_token : AccessTokens, refresh_token : {"rt1"}, user : Users]

Success(u) == [success |-> TRUE, user |-> u]

Failure(msg) == [success |-> FALSE, error |-> msg]

\* (err as ApiError)?.response?.data?.detail || fallback: the ApiError the
\* client throws has no 'response' field, so the fallback is always taken
errorMessage(fallback) == OrElse(None, fallback)

storeAccessTokenOnly(st, resp) == [st EXCEPT !.access_token = resp.access_token]

\* localStorage.setItem('access_token', ...); localStorage.setItem('refresh_token', ...)
storeTokens(st, resp) ==
    [st EXCEPT !.access_token = resp.access_token, !.refresh_token = resp.refresh_token]

\* the credential headers ApiClient.getHeaders adds for its apiKey and accessToken
getHeaders(apiKey, accessToken) ==
    [XApiKey |-> apiKey,
     Authorization |-> IF accessToken # None THEN <<"Bearer", accessToken>> ELSE <<>>]

InitAuth ==
    /\ storage = [access_token |-> None, refresh_token |-> None, api_key |-> None]
    /\ clientToken = None /\ clientApiKey = None
    /\ authPc = "unmounted"
    /\ user = None /\ loading = TRUE /\ error = None
    /\ whoamiCalls = 0
    /\ refreshPc = "idle" /\ refreshResult = None
    /\ loginPc = "idle" /\ loginResult = Absent
    /\ registerPc = "idle" /\ registerResult = Absent
    /\ updatePc = "idle" /\ updateResult = Absent

Mounted == authPc # "unmounted"

verifiesAlways(token) == TRUE

\* if (token) of initializeAuth
verifies(token) == token # None

\* Page load: the ApiClient singleton is constructed from storage, the hook
\* mounts with its initial state and its mount effect runs initializeAuth up
\* to the await of GET /api/v1/auth/me (or to its end when no token is stored)
Mount ==
    /\ authPc = "unmounted"
    /\ clientApiKey' = storage.api_key
    /\ clientToken' = storage.access_token
    /\ user' = None /\ error' = None
    /\ LET token == storage.access_token IN
       IF verifies(token)
       THEN /\ whoamiCalls' = whoamiCalls + 1
            /\ loading' = TRUE
            /\ authPc' = "verifying"
       ELSE /\ whoamiCalls' = whoamiCalls
            /\ loading' = FALSE
            /\ authPc' = "ready"
    /\ UNCHANGED <<nonAuthVars, storage, refreshPc, refreshResult, callVars>>

\* the page is left or reloaded: everything held in memory is gone, requests
\* in flight are never delivered; browser storage stays
Unload ==
    /\ Mounted
    /\ authPc' = "unmounted"
    /\ clientToken' = None /\ clientApiKey' = None
    /\ user' = None /\ loading' = TRUE /\ error' = None
    /\ whoamiCalls' = 0
    /\ refreshPc' = "idle" /\ refreshResult' = None
    /\ loginPc' = "idle" /\ loginResult' = Absent
    /\ registerPc' = "idle" /\ registerResult' = Absent
    /\ updatePc' = "idle" /\ updateResult' = Absent
    /\ UNCHANGED <<nonAuthVars, storage>>

\* GET /api/v1/auth/me resolved: setUser(response.data); finally setLoading(false)
InitializeAuthOk ==
    /\ authPc = "verifying"
    /\ \E u \in Users : user' = u
    /\ loading' = FALSE
    /\ authPc' = "ready"
    /\ UNCHANGED <<nonAuthVars, storage, clientToken, clientApiKey, error, whoamiCalls,
                   refreshPc, refreshResult, callVars>>

\* GET /api/v1/auth/me threw: both tokens are removed from storage;
\* finally setLoading(false)
InitializeAuthCatch ==
    /\ authPc = "verifying"
    /\ storage' = [storage EXCEPT !.access_token = None, !.refresh_token = None]
    /\ loading' = FALSE
    /\ authPc' = "ready"
    /\ UNCHANGED <<nonAuthVars, clientToken, clientApiKey, user, error, whoamiCalls,
                   refreshPc, refreshResult, callVars>>

\* login(credentials) up to the await of POST /api/v1/auth/login
Login ==
    /\ Mounted
    /\ loginPc = "idle"
    /\ loading' = TRUE
    /\ error' = None
    /\ loginPc' = "calling"
    /\ loginResult' = Absent
    /\ UNCHANGED <<nonAuthVars, storage, clientToken, clientApiKey, authPc, user,
                   whoamiCalls, refreshPc, refreshResult,
                   registerPc, registerResult, updatePc, updateResult>>

\* the login call resolved: tokens stored, ApiClient updated, user set
LoginOk ==
    /\ loginPc = "calling"
    /\ \E resp \in TokenResponses :
          /\ storage' = storeTokens(storage, resp)
          /\ clientToken' = resp.access_token
          /\ user' = resp.user
          /\ loginResult' = Success(resp.user)
    /\ loading' = FALSE
    /\ loginPc' = "idle"
    /\ UNCHANGED <<nonAuthVars, clientApiKey, authPc, error, whoamiCalls,
                   refreshPc, refreshResult,
                   registerPc, registerResult, updatePc, updateResult>>

\* the login call threw: setError('Login failed'); finally setLoading(false)
LoginCatch ==
    /\ loginPc = "calling"
    /\ error' = errorMessage("Login failed")
    /\ loginResult' = Failure(errorMessage("Login failed"))
    /\ loading' = FALSE
    /\ loginPc' = "idle"
    /\ UNCHANGED <<nonAuthVars, storage, clientToken, clientApiKey, authPc, user,
                   whoamiCalls, refreshPc, refreshResult,
                   registerPc, registerResult, updatePc, updateResult>>

\* register(data) up to the await of POST /api/v1/auth/register
Register ==
    /\ Mounted
    /\ registerPc = "idle"
    /\ loading' = TRUE
    /\ error' = None
    /\ registerPc' = "calling"
    /\ registerResult' = Absent
    /\ UNCHANGED <<nonAuthVars, storage, clientToken, clientApiKey, authPc, user,
                   whoamiCalls, refreshPc, refreshResult,
                   loginPc, loginResult, updatePc, updateResult>>

\* the register call resolved: tokens stored, ApiClient updated, user set
RegisterOk ==
    /\ registerPc = "calling"
    /\ \E resp \in TokenResponses :
          /\ storage' = storeTokens(storage, resp)
          /\ clientToken' = resp.access_token
          /\ user' = resp.user
          /\ registerResult' = Success(resp.user)
    /\ loading' = FALSE
    /\ registerPc' = "idle"
    /\ UNCHANGED <<nonAuthVars, clientApiKey, authPc, error, whoamiCalls,
                   refreshPc, refreshResult,
                   loginPc, loginResult, updatePc, updateResult>>

\* the register call threw: setError('Registration failed'); finally setLoading(false)
RegisterCatch ==
    /\ registerPc = "calling"
    /\ error' = errorMessage("Registration failed")
    /\ registerResult' = Failure(errorMessage("Registration failed"))
    /\ loading' = FALSE
    /\ registerPc' = "idle"
    /\ UNCHANGED <<nonAuthVars, storage, clientToken, clientApiKey, authPc, user,
                   whoamiCalls, refreshPc, refreshResult,
                   loginPc, loginResult, updatePc, updateResult>>

\* updateProfile(data) up to the await of PUT /api/v1/users/profile
UpdateProfile ==
    /\ Mounted
    /\ updatePc = "idle"
    /\ loading' = TRUE
    /\ error' = None
    /\ updatePc' = "calling"
    /\ updateResult' = Absent
    /\ UNCHANGED <<nonAuthVars, storage, clientToken, clientApiKey, authPc, user,
                   whoamiCalls, refreshPc, refreshResult,
                   loginPc, loginResult, registerPc, registerResult>>

\* the profile call resolved: setUser(updatedUser), whatever the user was
UpdateProfileOk ==
    /\ updatePc = "calling"
    /\ \E updatedUser \in Users :
          /\ user' = updatedUser
          /\ updateResult' = Success(updatedUser)
    /\ loading' = FALSE
    /\ updatePc' = "idle"
    /\ UNCHANGED <<nonAuthVars, storage, clientToken, clientApiKey, authPc, error,
                   whoamiCalls, refreshPc, refreshResult,
                   loginPc, loginResult, registerPc, registerResult>>

\* the profile call threw: setError('Profile update failed'); finally setLoading(false)
UpdateProfileCatch ==
    /\ updatePc = "calling"
    /\ error' = errorMessage("Profile update failed")
    /\ updateResult' = Failure(errorMessage("Profile update failed"))
    /\ loading' = FALSE
    /\ updatePc' = "idle"
    /\ UNCHANGED <<nonAuthVars, storage, clientToken, clientApiKey, authPc, user,
                   whoamiCalls, refreshPc, refreshResult,
                   loginPc, loginResult, registerPc, registerResult>>

\* the state changes of logout(); also run by the catch of refreshToken
DoLogout ==
    /\ storage' = [storage EXCEPT !.access_token = None, !.refresh_token = None]
    /\ clientToken' = None
    /\ user' = None
    /\ error' = None

Logout ==
    /\ Mounted
    /\ DoLogout
    /\ UNCHANGED <<nonAuthVars, clientApiKey, authPc, loading, whoamiCalls,
                   refreshPc, refreshResult, callVars>>

\* refreshToken() up to the await of POST /api/v1/auth/refresh, or to
\* 'return false' when no refresh token is stored
RefreshToken ==
    /\ Mounted
    /\ refreshPc = "idle"
    /\ IF storage.refresh_token = None
       THEN /\ refreshResult' = "false"
            /\ UNCHANGED refreshPc
       ELSE /\ refreshPc' = "calling"
            /\ refreshResult' = None
    /\ UNCHANGED <<nonAuthVars, storage, clientToken, clientApiKey, authPc, user,
                   loading, error, whoamiCalls, callVars>>

\* the refresh call resolved: new access token stored, return true
RefreshTokenOk ==
    /\ refreshPc = "calling"
    /\ \E at \in AccessTokens :
          /\ storage' = [storage EXCEPT !.access_token = at]
          /\ clientToken' = at
    /\ refreshResult' = "true"
    /\ refreshPc' = "idle"
    /\ UNCHANGED <<nonAuthVars, clientApiKey, authPc, user, loading, error,
                   whoamiCalls, callVars>>

\* the refresh call threw: logout(); return false
RefreshTokenCatch ==
    /\ refreshPc = "calling"
    /\ DoLogout
    /\ refreshResult' = "false"
    /\ refreshPc' = "idle"
    /\ UNCHANGED <<nonAuthVars, clientApiKey, authPc, loading, whoamiCalls, callVars>>

\* setApiKey(apiKey) of the hook: writes or removes the storage key only
SetApiKey ==
    /\ Mounted
    /\ \E k \in {"key1"} \cup {None} : storage' = [storage EXCEPT !.api_key = k]
    /\ UNCHANGED <<nonAuthVars, clientToken, clientApiKey, authPc, user, loading,
                   error, whoamiCalls, refreshPc, refreshResult, callVars>>

NextAuth ==
    \/ Mount
    \/ Unload
    \/ InitializeAuthOk
    \/ InitializeAuthCatch
    \/ Login
    \/ LoginOk
    \/ LoginCatch
    \/ Register
    \/ RegisterOk
    \/ RegisterCatch
    \/ UpdateProfile
    \/ UpdateProfileOk
    \/ UpdateProfileCatch
    \/ Logout
    \/ RefreshToken
    \/ RefreshTokenOk
    \/ RefreshTokenCatch
    \/ SetApiKey

(***************************************************************************)
(* useAdmin (use-admin hook in src/lib/api/admin.ts)                       *)
(***************************************************************************)
PermissionNames == {"admin:users:view", "admin:analytics:view",
                    "admin:settings:update", "admin:billing:manage"}

\* what adminAPI.getAdminUser(authUser.id) resolves with
AdminUserResponses ==
    [id : Users, is_admin : BOOLEAN,
     is_super_admin : {Absent, Present(TRUE), Present(FALSE)},
     permissions : {Absent} \cup {Present(list) : list \in SUBSET PermissionNames}]

\* { ...adminResponse, is_super_admin: ... || false, permissions: ... || [] }
AdminUser(adminResponse) ==
    [id |-> adminResponse.id,
     is_admin |-> adminResponse.is_admin,
     is_super_admin |-> Default(adminResponse.is_super_admin, FALSE),
     permissions |-> Default(adminResponse.permissions, {})]

\* the names the closure answers true for, when a super admin is granted all
PermittedAllForSuperAdmin(adminUser) ==
    IF adminUser.is_super_admin THEN PermissionNames ELSE adminUser.permissions

\* the names for which the closure (permission) => adminUser.permissions.includes(permission)
\* answers true
Permitted(adminUser) == adminUser.permissions

\* useState<AdminAuthState>({...}); permitted = {} stands for () => false
InitialAdminState ==
    [user |-> Absent, isAuthenticated |-> FALSE, isLoading |-> TRUE,
     isAdmin |-> FALSE, isSuperAdmin |-> FALSE, permitted |-> {}]

\* setAdminState(prev => ({ ...prev, user: null, isAuthenticated: false, ... }))
NotAuthenticated(prev) ==
    [prev EXCEPT !.user = Absent, !.isAuthenticated = FALSE, !.isLoading = FALSE,
                 !.isAdmin = FALSE, !.isSuperAdmin = FALSE, !.permitted = {}]

\* setAdminState({ user: adminUser, isAuthenticated: true, ... })
Resolved(adminUser) ==
    [user |-> adminUser, isAuthenticated |-> TRUE, isLoading |-> FALSE,
     isAdmin |-> adminUser.is_admin, isSuperAdmin |-> adminUser.is_super_admin,
     permitted |-> Permitted(adminUser)]

\* the effect 'Redirect to login if not authenticated', run when its deps changed
loginRedirect(prev, next) ==
    IF /\ <<next.isLoading, next.isAuthenticated>> # <<prev.isLoading, prev.isAuthenticated>>
       /\ ~next.isLoading /\ ~next.isAuthenticated
    THEN <<"/auth/login">> ELSE <<>>

\* the effect 'Redirect to dashboard if not admin', run when its deps changed
dashboardRedirect(prev, next) ==
    IF /\ <<next.isLoading, next.isAuthenticated, next.isAdmin>>
             # <<prev.isLoading, prev.isAuthenticated, prev.isAdmin>>
       /\ ~next.isLoading /\ next.isAuthenticated /\ ~next.isAdmin
    THEN <<"/dashboard">> ELSE <<>>

\* router.push calls of the render that follows setAdminState
Pushes(prev, next) == loginRedirect(prev, next) \o dashboardRedirect(prev, next)

hasPermission(name) == name \in adminState.permitted

InitAdmin ==
    /\ aPc = "unmounted"
    /\ authUser = None
    /\ adminState = InitialAdminState
    /\ nav = <<>>

\* first render and its effects: the hook's own useAuth instance starts with
\* user null and verifies a stored token; checkAdminAccess runs at once, sees
\* no user and settles on 'not authenticated'; the redirect effect follows
AdminMount ==
    /\ aPc = "unmounted"
    /\ \E token \in AccessTokens \cup {None} :
          aPc' = IF verifies(token) THEN "verifying" ELSE "ready"
    /\ authUser' = None
    /\ adminState' = NotAuthenticated(InitialAdminState)
    /\ nav' = Pushes(InitialAdminState, adminState')
    /\ UNCHANGED nonAdminVars

\* whoami resolved: authUser changes, the effect calls checkAdminAccess again,
\* which awaits adminAPI.getAdminUser(authUser.id)
AdminWhoamiOk ==
    /\ aPc = "verifying"
    /\ \E u \in Users : authUser' = u
    /\ aPc' = "fetching"
    /\ UNCHANGED <<nonAdminVars, adminState, nav>>

\* whoami threw: the user stays null, checkAdminAccess is not called again
AdminWhoamiCatch ==
    /\ aPc = "verifying"
    /\ aPc' = "ready"
    /\ UNCHANGED <<nonAdminVars, authUser, adminState, nav>>

\* getAdminUser resolved
GetAdminUserOk ==
    /\ aPc = "fetching"
    /\ \E adminResponse \in AdminUserResponses :
          /\ adminResponse.id = authUser
          /\ adminState' = Resolved(AdminUser(adminResponse))
    /\ nav' = nav \o Pushes(adminState, adminState')
    /\ aPc' = "loaded"
    /\ UNCHANGED <<nonAdminVars, authUser>>

\* getAdminUser (or the dynamic import) threw
GetAdminUserCatch ==
    /\ aPc = "fetching"
    /\ adminState' = NotAuthenticated(adminState)
    /\ nav' = nav \o Pushes(adminState, adminState')
    /\ aPc' = "failed"
    /\ UNCHANGED <<nonAdminVars, authUser>>

\* authVars but the user of the Header's useAuth instance
headerFrame == <<storage, clientToken, clientApiKey, authPc, loading, error, whoamiCalls,
                 refreshPc, refreshResult, callVars>>

\* the page that uses the hook is left: every hook instance is gone
AdminUnload ==
    /\ aPc # "unmounted"
    /\ aPc' = "unmounted"
    /\ authUser' = None
    /\ adminState' = InitialAdminState
    /\ nav' = <<>>
    /\ user' = None
    /\ UNCHANGED <<payVars, clientVars, pageVars, modalVars, refreshVars, billingVars, headerFrame>>

\* the Header on the page calls useAuth() itself: its instance has its own
\* user state, here the variable user. Its mount-time whoami resolves with
\* the user of the stored token, the one the hook's instance got
HeaderWhoamiOk ==
    /\ aPc \in {"fetching", "loaded", "failed"}
    /\ user = None
    /\ user' = authUser
    /\ UNCHANGED <<payVars, clientVars, adminVars, pageVars, modalVars, refreshVars, billingVars,
                   headerFrame>>

\* onClick={logout} of the Header: logout() of the Header's instance
HeaderLogout ==
    /\ aPc # "unmounted"
    /\ user # None
    /\ DoLogout
    /\ UNCHANGED <<payVars, clientVars, adminVars, pageVars, modalVars, refreshVars, billingVars,
                   clientApiKey, authPc, loading, whoamiCalls, refreshPc, refreshResult, callVars>>

NextAdmin ==
    \/ AdminMount
    \/ AdminWhoamiOk
    \/ AdminWhoamiCatch
    \/ GetAdminUserOk
    \/ GetAdminUserCatch
    \/ AdminUnload
    \/ HeaderWhoamiOk
    \/ HeaderLogout

(***************************************************************************)
(* Dashboard and admin pages: DashboardPage, ApiKeysPage,                  *)
(* BillingPageContent, AdminSettingsPage                                   *)
(***************************************************************************)
\* the reads each page combines with Promise.all
ParallelReads(page) ==
    CASE page = "dashboard" -> {"apiKeys", "usage", "profile"}
      [] page = "apiKeys" -> {"apiKeys", "profile"}
      [] page = "billing" -> {"subscription", "invoices"}

\* messages of the ApiError a read rejects with
ReadErrors == {"Server error. Please try again later.", CONNECTIVITY_MESSAGE}

Key(id, name, active) == [id |-> id, name |-> name, is_active |-> active]

\* answers of GET /users/profile: userProfile.plan, absent or present
Profiles == [hasPlan : {TRUE}, plan : [name : {"Free", "Pro"}, monthly_price : {0, 29}]]
            \cup {[hasPlan |-> FALSE, plan |-> [name |-> None, monthly_price |-> 0]]}

\* what each read resolves with; the last answer of GET /users/api-keys holds
\* an entry without id and name
ReadData(read) ==
    CASE read = "apiKeys" -> {<<>>, <<Key(1, "ci", TRUE)>>, <<Key(2, "web", FALSE), Key(0, "", TRUE)>>}
      [] read = "usage" -> {[requests_this_month |-> 10, monthly_quota |-> 1000]}
      [] read = "profile" -> Profiles
      [] read = "subscription" ->
            [plan_name : {None, "Pro"}, monthly_price : {29}, status : {None, "active"}]
      [] read = "invoices" -> {<<>>, <<"evt_1">>}

PendingRead == [st |-> "pending"]

ReadOutcomes(read) ==
    {[st |-> "ok", data |-> data] : data \in ReadData(read)}
       \cup {[st |-> "rejected", message |-> m] : m \in ReadErrors}

NoReads == [read \in {} |-> PendingRead]

AllPending(page) == [read \in ParallelReads(page) |-> PendingRead]

AllFulfilled(reads) == \A read \in DOMAIN reads : reads[read].st = "ok"

RECURSIVE CountActive(_)
\* apiKeys.filter(key => key.is_active).length
CountActive(keys) ==
    IF keys = <<>> THEN 0
    ELSE (IF keys[1].is_active THEN 1 ELSE 0) + CountActive(Tail(keys))

\* the DashboardStats built from the three answers
DashboardStats(keys, usage, profile) ==
    [loaded |-> TRUE,
     totalApiKeys |-> Len(keys),
     activeApiKeys |-> CountActive(keys),
     requestsThisMonth |-> usage.requests_this_month,
     monthlyQuota |-> usage.monthly_quota,
     planName |-> profile.plan.name,
     planPrice |-> profile.plan.monthly_price]

\* apiKeys.filter(key => key && key.id && key.name)
validApiKeys(keys) == SelectSeq(keys, LAMBDA key : key.id # 0 /\ key.name # "")

\* { max_api_keys: ... || 5, plan_name: userProfile.plan?.name || 'Free' }
UserPlan(profile) ==
    [loaded |-> TRUE, plan_name |-> OrElse(profile.plan.name, "Free")]

\* planName === 'Free' || (userProfile.plan?.monthly_price || 0) === 0
isFreePlan(profile) ==
    OrElse(profile.plan.name, "Free") = "Free" \/ profile.plan.monthly_price = 0

Billing(name, price, status) ==
    [loaded |-> TRUE, plan_name |-> name, plan_price |-> price,
     subscription_status |-> status]

\* the billing info of a free-plan profile
ProfileBilling(profile) ==
    Billing(OrElse(profile.plan.name, "Free"), profile.plan.monthly_price, "inactive")

\* the billing info of a subscription answer
SubscriptionBilling(subscription) ==
    Billing(OrElse(subscription.plan_name, "Free"), subscription.monthly_price,
            OrElse(subscription.status, "inactive"))

\* 'If subscription API fails, fall back to free plan'
FallbackBilling == Billing("Free", 0, "inactive")

\* no mutating call is awaited
NoMutation == [kind |-> "none"]

InitPages ==
    /\ pgPage = None
    /\ pgPc = "idle"
    /\ pgReads = NoReads
    /\ pgIsLoading = TRUE
    /\ pgError = ""
    /\ stats = Absent
    /\ apiKeys = <<>>
    /\ userPlan = Absent
    /\ billingInfo = Absent
    /\ invoices = <<>>
    /\ settings = <<>>
    /\ mutPc = NoMutation
    /\ editingKey = None /\ editValue = "" /\ saving = None
    /\ portalUrl = None

\* a page is rendered for the first time
OpenPage ==
    /\ pgPage = None
    /\ \E page \in {"dashboard", "apiKeys", "billing", "settings"} : pgPage' = page
    /\ UNCHANGED <<nonPageVars, pgPc, pgReads, pgIsLoading, pgError, pgData, mutVars>>

\* the page is left
ClosePage ==
    /\ pgPage # None
    /\ pgPage' = None
    /\ pgPc' = "idle"
    /\ pgReads' = NoReads
    /\ pgIsLoading' = TRUE
    /\ pgError' = ""
    /\ stats' = Absent
    /\ apiKeys' = <<>>
    /\ userPlan' = Absent
    /\ billingInfo' = Absent
    /\ invoices' = <<>>
    /\ settings' = <<>>
    /\ mutPc' = NoMutation
    /\ editingKey' = None /\ editValue' = "" /\ saving' = None
    /\ portalUrl' = None
    /\ UNCHANGED nonPageVars

\* DashboardPage.loadDashboardData up to its Promise.all:
\* setIsLoading(true); setError(''); the three reads are started
LoadDashboardData ==
    /\ pgPage = "dashboard"
    /\ pgPc = "idle"
    /\ pgIsLoading' = TRUE
    /\ pgError' = ""
    /\ pgReads' = AllPending("dashboard")
    /\ pgPc' = "parallel"
    /\ UNCHANGED <<nonPageVars, mutVars, pgPage, pgData>>

\* ApiKeysPage.loadData up to its Promise.all:
\* setIsLoading(true); setError(''); the two reads are started
LoadData ==
    /\ pgPage = "apiKeys"
    /\ pgPc = "idle"
    /\ pgIsLoading' = TRUE
    /\ pgError' = ""
    /\ pgReads' = AllPending("apiKeys")
    /\ pgPc' = "parallel"
    /\ UNCHANGED <<nonPageVars, mutVars, pgPage, pgData>>

\* catch (err) { setError(err.message) } finally { setIsLoading(false) }
LoadCatch(message) ==
    /\ pgError' = message
    /\ pgIsLoading' = FALSE
    /\ pgPc' = "idle"

\* finally { setIsLoading(false) } after the try block ran to its end
LoadDone ==
    /\ pgIsLoading' = FALSE
    /\ pgPc' = "idle"
    /\ UNCHANGED pgError

\* one read of loadDashboardData's Promise.all settles; the code after the
\* await runs when the first read rejects or the last one is fulfilled
DashboardReadSettles ==
    /\ pgPage = "dashboard"
    /\ pgPc = "parallel"
    /\ \E read \in ParallelReads("dashboard") :
       \E outcome \in ReadOutcomes(read) :
          /\ pgReads[read] = PendingRead
          /\ pgReads' = [pgReads EXCEPT ![read] = outcome]
          /\ IF outcome.st = "rejected"
             THEN LoadCatch(outcome.message) /\ UNCHANGED pgData
             ELSE IF ~AllFulfilled(pgReads')
             THEN UNCHANGED <<pgPc, pgIsLoading, pgError, pgData>>
             ELSE IF ~pgReads'["profile"].data.hasPlan
             THEN LoadCatch("Cannot read properties of undefined (reading 'name')") /\ UNCHANGED pgData
             ELSE /\ stats' = DashboardStats(pgReads'["apiKeys"].data, pgReads'["usage"].data,
                                             pgReads'["profile"].data)
                  /\ LoadDone
                  /\ UNCHANGED <<apiKeys, userPlan, billingInfo, invoices, settings>>
    /\ UNCHANGED <<nonPageVars, mutVars, pgPage>>

\* one read of loadData's Promise.all settles
ApiKeysReadSettles ==
    /\ pgPage = "apiKeys"
    /\ pgPc = "parallel"
    /\ \E read \in ParallelReads("apiKeys") :
       \E outcome \in ReadOutcomes(read) :
          /\ pgReads[read] = PendingRead
          /\ pgReads' = [pgReads EXCEPT ![read] = outcome]
          /\ IF outcome.st = "rejected"
             THEN LoadCatch(outcome.message) /\ UNCHANGED pgData
             ELSE IF ~AllFulfilled(pgReads')
             THEN UNCHANGED <<pgPc, pgIsLoading, pgError, pgData>>
             ELSE /\ apiKeys' = validApiKeys(pgReads'["apiKeys"].data)
                  /\ userPlan' = UserPlan(pgReads'["profile"].data)
                  /\ LoadDone
                  /\ UNCHANGED <<stats, billingInfo, invoices, settings>>
    /\ UNCHANGED <<nonPageVars, mutVars, pgPage>>

\* BillingPageContent.loadBillingData up to the await of api.user.getProfile()
LoadBillingData ==
    /\ pgPage = "billing"
    /\ pgPc = "idle"
    /\ pgIsLoading' = TRUE
    /\ pgError' = ""
    /\ pgReads' = NoReads
    /\ pgPc' = "profile"
    /\ UNCHANGED <<nonPageVars, mutVars, pgPage, pgData>>

\* the profile read settles: error, free-plan billing info, or the Promise.all
\* of subscription and invoices
BillingProfileSettles ==
    /\ pgPage = "billing"
    /\ pgPc = "profile"
    /\ \E outcome \in ReadOutcomes("profile") :
          IF outcome.st = "rejected"
          THEN LoadCatch(outcome.message) /\ UNCHANGED <<pgReads, pgData>>
          ELSE IF isFreePlan(outcome.data)
          THEN /\ billingInfo' = ProfileBilling(outcome.data)
               /\ invoices' = <<>>
               /\ LoadDone
               /\ UNCHANGED <<pgReads, stats, apiKeys, userPlan, settings>>
          ELSE /\ pgReads' = AllPending("billing")
               /\ pgPc' = "parallel"
               /\ UNCHANGED <<pgIsLoading, pgError, pgData>>
    /\ UNCHANGED <<nonPageVars, mutVars, pgPage>>

\* one read of loadBillingData's Promise.all settles; a rejection is caught
\* by the inner try and replaced by the free-plan fallback
BillingReadSettles ==
    /\ pgPage = "billing"
    /\ pgPc = "parallel"
    /\ \E read \in ParallelReads("billing") :
       \E outcome \in ReadOutcomes(read) :
          /\ pgReads[read] = PendingRead
          /\ pgReads' = [pgReads EXCEPT ![read] = outcome]
          /\ IF outcome.st = "rejected"
             THEN /\ billingInfo' = FallbackBilling
                  /\ invoices' = <<>>
                  /\ LoadDone
                  /\ UNCHANGED <<stats, apiKeys, userPlan, settings>>
             ELSE IF ~AllFulfilled(pgReads')
             THEN UNCHANGED <<pgPc, pgIsLoading, pgError, pgData>>
             ELSE /\ billingInfo' = SubscriptionBilling(pgReads'["subscription"].data)
                  /\ invoices' = pgReads'["invoices"].data
                  /\ LoadDone
                  /\ UNCHANGED <<stats, apiKeys, userPlan, settings>>
    /\ UNCHANGED <<nonPageVars, mutVars, pgPage>>

Setting(key, value, updated_at) ==
    [setting_key |-> key, setting_value |-> value, updated_at |-> updated_at]

\* answers of GET /admin/settings
SettingsAnswers ==
    {<<>>, <<Setting("maintenance_mode", "off", "t0"), Setting("rate_limit", "100", "t0")>>}

\* AdminSettingsPage.loadSettings up to its await
LoadSettings ==
    /\ pgPage = "settings"
    /\ pgPc = "idle"
    /\ pgIsLoading' = TRUE
    /\ pgError' = ""
    /\ pgReads' = NoReads
    /\ pgPc' = "single"
    /\ UNCHANGED <<nonPageVars, mutVars, pgPage, pgData>>

\* the settings read settles
SettingsReadSettles ==
    /\ pgPage = "settings"
    /\ pgPc = "single"
    /\ \/ \E message \in ReadErrors : LoadCatch(message) /\ UNCHANGED pgData
       \/ \E answer \in SettingsAnswers :
             /\ settings' = answer
             /\ LoadDone
             /\ UNCHANGED <<stats, apiKeys, userPlan, billingInfo, invoices>>
    /\ UNCHANGED <<nonPageVars, mutVars, pgPage, pgReads>>

\* handleEdit(setting)
HandleEdit ==
    /\ pgPage = "settings"
    /\ \E i \in DOMAIN settings :
          /\ editingKey' = settings[i].setting_key
          /\ editValue' = settings[i].setting_value
    /\ UNCHANGED <<nonPageVars, pgPage, pgPc, pgReads, pgIsLoading, pgError, pgData,
                   mutPc, saving, portalUrl>>

\* the admin changes the edit field
ChangeEditValue ==
    /\ editingKey # None
    /\ \E value \in {"on", "250"} : editValue' = value
    /\ UNCHANGED <<nonPageVars, pgPage, pgPc, pgReads, pgIsLoading, pgError, pgData,
                   mutPc, editingKey, saving, portalUrl>>

\* handleSave(settingKey) up to the await of PUT /admin/settings/{key}
HandleSave ==
    /\ pgPage = "settings"
    /\ editingKey # None
    /\ saving # editingKey
    /\ mutPc = NoMutation
    /\ saving' = editingKey
    /\ mutPc' = [kind |-> "save", key |-> editingKey, value |-> editValue]
    /\ UNCHANGED <<nonPageVars, pgPage, pgPc, pgReads, pgIsLoading, pgError, pgData,
                   editingKey, editValue, portalUrl>>

\* prev.map(s => s.setting_key === settingKey ? {...s, setting_value, updated_at} : s)
mapSetting(prev, key, value, updated_at) ==
    [i \in DOMAIN prev |->
        IF prev[i].setting_key = key THEN Setting(key, value, updated_at) ELSE prev[i]]

\* the PUT resolved: the list is patched in place, the edit is closed
SaveOk ==
    /\ mutPc.kind = "save"
    /\ \E updated_at \in {"t1"} :
          settings' = mapSetting(settings, mutPc.key, mutPc.value, updated_at)
    /\ editingKey' = None
    /\ editValue' = ""
    /\ saving' = None
    /\ mutPc' = NoMutation
    /\ UNCHANGED <<nonPageVars, pgPage, pgPc, pgReads, pgIsLoading, pgError,
                   stats, apiKeys, userPlan, billingInfo, invoices, portalUrl>>

\* the PUT threw: setError(message); finally setSaving(null)
SaveCatch ==
    /\ mutPc.kind = "save"
    /\ \E message \in ReadErrors : pgError' = message
    /\ saving' = None
    /\ mutPc' = NoMutation
    /\ UNCHANGED <<nonPageVars, pgPage, pgPc, pgReads, pgIsLoading, pgData,
                   editingKey, editValue, portalUrl>>

KeyIds(keys) == {keys[i].id : i \in DOMAIN keys}

\* ApiKeysPage.handleCreate(name) up to the await of api.apiKeys.create(name)
HandleCreate ==
    /\ pgPage = "apiKeys"
    /\ mutPc = NoMutation
    /\ Len(apiKeys) < MaxKeys
    /\ mutPc' = [kind |-> "create", name |-> "new"]
    /\ UNCHANGED <<nonPageVars, pgPage, pgPc, pgReads, pgIsLoading, pgError, pgData,
                   editingKey, editValue, saving, portalUrl>>

\* setApiKeys(prev => [...prev, newApiKey]): the new key at the wrong end
appendKey(newApiKey, prev) == Append(prev, newApiKey)

\* setApiKeys(prev => [newApiKey, ...prev])
prependKey(newApiKey, prev) == <<newApiKey>> \o prev

\* the create call resolved: the returned key is put in front of the list
CreateOk ==
    /\ mutPc.kind = "create"
    /\ Len(apiKeys) < MaxKeys
    /\ \E id \in {3, 4} \ KeyIds(apiKeys) :
          apiKeys' = prependKey(Key(id, mutPc.name, TRUE), apiKeys)
    /\ mutPc' = NoMutation
    /\ UNCHANGED <<nonPageVars, pgPage, pgPc, pgReads, pgIsLoading, pgError,
                   stats, userPlan, billingInfo, invoices, settings,
                   editingKey, editValue, saving, portalUrl>>

\* the create call threw: the error is rethrown to the caller
CreateCatch ==
    /\ mutPc.kind = "create"
    /\ mutPc' = NoMutation
    /\ UNCHANGED <<nonPageVars, pgPage, pgPc, pgReads, pgIsLoading, pgError, pgData,
                   editingKey, editValue, saving, portalUrl>>

\* ApiKeysPage.handleDelete(id) up to the await of api.apiKeys.revoke(id)
HandleDelete ==
    /\ pgPage = "apiKeys"
    /\ mutPc = NoMutation
    /\ \E id \in KeyIds(apiKeys) : mutPc' = [kind |-> "delete", id |-> id]
    /\ UNCHANGED <<nonPageVars, pgPage, pgPc, pgReads, pgIsLoading, pgError, pgData,
                   editingKey, editValue, saving, portalUrl>>

\* setApiKeys(prev => prev.filter(key => key.id !== id))
removeKey(prev, id) == SelectSeq(prev, LAMBDA key : key.id # id)

\* the revoke call resolved: the key is filtered out of the list
DeleteOk ==
    /\ mutPc.kind = "delete"
    /\ apiKeys' = removeKey(apiKeys, mutPc.id)
    /\ mutPc' = NoMutation
    /\ UNCHANGED <<nonPageVars, pgPage, pgPc, pgReads, pgIsLoading, pgError,
                   stats, userPlan, billingInfo, invoices, settings,
                   editingKey, editValue, saving, portalUrl>>

\* the revoke call threw: the error is rethrown to the caller
DeleteCatch ==
    /\ mutPc.kind = "delete"
    /\ mutPc' = NoMutation
    /\ UNCHANGED <<nonPageVars, pgPage, pgPc, pgReads, pgIsLoading, pgError, pgData,
                   editingKey, editValue, saving, portalUrl>>

\* BillingPageContent.handleManageBilling up to the await of
\* api.billing.createCustomerPortalSession()
HandleManageBilling ==
    /\ pgPage = "billing"
    /\ mutPc = NoMutation
    /\ mutPc' = [kind |-> "portal"]
    /\ UNCHANGED <<nonPageVars, pgPage, pgPc, pgReads, pgIsLoading, pgError, pgData,
                   editingKey, editValue, saving, portalUrl>>

\* the portal session was created: window.open(portalUrl, '_blank')
PortalOk ==
    /\ mutPc.kind = "portal"
    /\ \E url \in {"https://billing.stripe.com/p/session/a", "https://billing.stripe.com/p/session/b"} :
          portalUrl' = url
    /\ mutPc' = NoMutation
    /\ UNCHANGED <<nonPageVars, pgPage, pgPc, pgReads, pgIsLoading, pgError, pgData,
                   editingKey, editValue, saving>>

\* catch (err) { console.error(...) }: no state of the page is set
PortalCatch ==
    /\ mutPc.kind = "portal"
    /\ mutPc' = NoMutation
    /\ UNCHANGED <<nonPageVars, pgPage, pgPc, pgReads, pgIsLoading, pgError, pgData,
                   editingKey, editValue, saving, portalUrl>>

NextPages ==
    \/ OpenPage
    \/ ClosePage
    \/ LoadDashboardData
    \/ DashboardReadSettles
    \/ LoadData
    \/ ApiKeysReadSettles
    \/ LoadBillingData
    \/ BillingProfileSettles
    \/ BillingReadSettles
    \/ LoadSettings
    \/ SettingsReadSettles
    \/ HandleEdit
    \/ ChangeEditValue
    \/ HandleSave
    \/ SaveOk
    \/ SaveCatch
    \/ HandleCreate
    \/ CreateOk
    \/ CreateCatch
    \/ HandleDelete
    \/ DeleteOk
    \/ DeleteCatch
    \/ HandleManageBilling
    \/ PortalOk
    \/ PortalCatch

(***************************************************************************)
(* SubscribeModal: hosted checkout (components/stripe/SubscribeModal)      *)
(***************************************************************************)
\* the body of POST checkout-sessions; the URLs are relative to window.location.origin
CheckoutRequest(planId) ==
    [plan_id |-> planId, success_url |-> "/dashboard/billing?success=true", cancel_url |-> "/pricing?canceled=true"]

\* 2xx answers of the backend: { id, url }, or a body without url
CheckoutResponses == [url : {"https://checkout.stripe.com/c/pay/cs_test_a1",
                             "https://checkout.stripe.com/c/pay/cs_test_b2", None}]

\* messages of the Error StripeAPI.request or fetch throws
CheckoutErrors == {"Plan not found", "HTTP 500", "Failed to fetch"}


InitModal ==
    /\ mOpen = FALSE
    /\ mPlan = 0
    /\ mStep = "payment"
    /\ mIsProcessing = FALSE
    /\ mError = None
    /\ mInFlight = 0
    /\ mRequest = Absent
    /\ mReported = None
    /\ location = None

\* the pricing page selects a plan and opens the modal; the effect on isOpen
\* resets step, error and isProcessing
OpenModal ==
    /\ location = None
    /\ ~mOpen
    /\ mOpen' = TRUE
    /\ \E planId \in {1, 2} : mPlan' = planId
    /\ mStep' = "payment"
    /\ mError' = None
    /\ mIsProcessing' = FALSE
    /\ UNCHANGED <<nonModalVars, mInFlight, mRequest, mReported, location>>

\* onOpenChange / Cancel: the parent closes the dialog
CloseModal ==
    /\ location = None
    /\ mOpen
    /\ mOpen' = FALSE
    /\ UNCHANGED <<nonModalVars, mPlan, mStep, mIsProcessing, mError, mInFlight, mRequest,
                   mReported, location>>

\* handleCheckoutRedirect up to the await of stripeAPI.createCheckoutSession;
\* the button is rendered in step 'payment' and disabled while isProcessing
HandleCheckoutRedirect ==
    /\ location = None
    /\ mOpen
    /\ mStep = "payment"
    /\ ~mIsProcessing
    /\ mInFlight < MaxSessions
    /\ mError' = None
    /\ mStep' = "processing"
    /\ mIsProcessing' = TRUE
    /\ mRequest' = CheckoutRequest(mPlan)
    /\ mInFlight' = mInFlight + 1
    /\ UNCHANGED <<nonModalVars, mOpen, mPlan, mReported, location>>

\* the call resolved: window.location.href = checkoutResponse.url; an
\* undefined url is turned into the string 'undefined'
CheckoutSessionCreated(response) ==
    /\ location = None
    /\ mInFlight > 0
    /\ mInFlight' = mInFlight - 1
    /\ location' = IF response.url = None THEN "undefined" ELSE response.url
    /\ UNCHANGED <<nonModalVars, mOpen, mPlan, mStep, mIsProcessing, mError, mRequest,
                   mReported>>

\* the catch block without its last two statements
CheckoutSessionFailedNoReset(message) ==
    /\ location = None
    /\ mInFlight > 0
    /\ mInFlight' = mInFlight - 1
    /\ mError' = message
    /\ mReported' = message
    /\ UNCHANGED <<nonModalVars, mOpen, mPlan, mStep, mIsProcessing, mRequest, location>>

\* the call threw: setError, setStep('payment'), onError, setIsProcessing(false)
CheckoutSessionFailed(message) ==
    /\ location = None
    /\ mInFlight > 0
    /\ mInFlight' = mInFlight - 1
    /\ mError' = message
    /\ mStep' = "payment"
    /\ mReported' = message
    /\ mIsProcessing' = FALSE
    /\ UNCHANGED <<nonModalVars, mOpen, mPlan, mRequest, location>>

\* the browser has left for the checkout page; the pricing page is loaded anew
PricingPageLoad ==
    /\ location # None
    /\ mOpen' = FALSE
    /\ mPlan' = 0
    /\ mStep' = "payment"
    /\ mIsProcessing' = FALSE
    /\ mError' = None
    /\ mInFlight' = 0
    /\ mRequest' = Absent
    /\ mReported' = None
    /\ location' = None
    /\ UNCHANGED nonModalVars

NextModal ==
    \/ OpenModal
    \/ CloseModal
    \/ HandleCheckoutRedirect
    \/ \E response \in CheckoutResponses : CheckoutSessionCreated(response)
    \/ \E message \in CheckoutErrors : CheckoutSessionFailed(message)
    \/ PricingPageLoad

(***************************************************************************)
(* Auto-refreshing admin pages: AnalyticsDashboard (app/admin/analytics)   *)
(* and APIMonitoring (app/admin/page.tsx). rLoads holds the calls of the   *)
(* page's load function since it was mounted, in the order they started.   *)
(***************************************************************************)

InitRefresh ==
    /\ rPage = None
    /\ timeRange = "7d"
    /\ autoRefresh = TRUE
    /\ rTimers = <<>>
    /\ rLoads = <<>>
    /\ rData = Absent
    /\ rIsLoading = TRUE
    /\ rError = ""

\* the cleanup leaves the interval running
clearIntervalNever(timers) == timers

\* return () => clearInterval(interval): the interval this effect run set
clearInterval(timers) == SubSeq(timers, 1, Len(timers) - 1)

\* the load function up to its first await. loadAnalyticsData does
\* setIsLoading(true); setError('') and GETs the analytics of its time range;
\* loadMonitoringData sets no state and awaits getSystemMetrics()
StartLoad(page, range, by) ==
    /\ Len(rLoads) < MaxLoads
    /\ IF page = "analytics"
       THEN /\ rLoads' = Append(rLoads, [pc |-> "analytics", range |-> range, by |-> by])
            /\ rIsLoading' = TRUE
            /\ rError' = ""
       ELSE /\ rLoads' = Append(rLoads, [pc |-> "metrics", range |-> None, by |-> by])
            /\ UNCHANGED <<rIsLoading, rError>>

\* the page's effect runs: the load is called and the interval is set
\* (APIMonitoring: only if autoRefresh)
RunEffect(page, range, auto, timers) ==
    /\ StartLoad(page, range, "effect")
    /\ rTimers' = IF page = "analytics" \/ auto
                  THEN Append(timers, 30000) ELSE timers

\* the timers left by the cleanup of the effect's previous run
Cleanup(page, auto) ==
    IF page = "analytics" \/ auto THEN clearInterval(rTimers) ELSE rTimers

\* one of the two pages is rendered for the first time
RefreshMount ==
    /\ rPage = None
    /\ \E page \in {"analytics", "monitoring"} :
          /\ rPage' = page
          /\ RunEffect(page, timeRange, autoRefresh, rTimers)
    /\ UNCHANGED <<nonRefreshVars, timeRange, autoRefresh, rData>>

\* the page is left: the effect's cleanup runs; what loads still in flight
\* set afterwards is the state of a component that is gone
RefreshUnmount ==
    /\ rPage # None
    /\ rTimers' = Cleanup(rPage, autoRefresh)
    /\ rPage' = None
    /\ timeRange' = "7d"
    /\ autoRefresh' = TRUE
    /\ rLoads' = <<>>
    /\ rData' = Absent
    /\ rIsLoading' = TRUE
    /\ rError' = ""
    /\ UNCHANGED nonRefreshVars

\* AnalyticsDashboard: onClick={() => setTimeRange(range)}; loadAnalyticsData
\* is recreated, so the effect is cleaned up and runs again
SetTimeRange ==
    /\ rPage = "analytics"
    /\ \E range \in {"7d", "30d"} \ {timeRange} :
          /\ timeRange' = range
          /\ RunEffect(rPage, range, autoRefresh, Cleanup(rPage, autoRefresh))
    /\ UNCHANGED <<nonRefreshVars, rPage, autoRefresh, rData>>

\* APIMonitoring: onClick={() => setAutoRefresh(!autoRefresh)}; the effect
\* is cleaned up and runs again
ToggleAutoRefresh ==
    /\ rPage = "monitoring"
    /\ autoRefresh' = ~autoRefresh
    /\ RunEffect(rPage, timeRange, ~autoRefresh, Cleanup(rPage, autoRefresh))
    /\ UNCHANGED <<nonRefreshVars, rPage, timeRange, rData>>

\* an interval fires and calls the load function it was given
IntervalFires ==
    /\ rTimers # <<>>
    /\ StartLoad(rPage, timeRange, "interval")
    /\ UNCHANGED <<nonRefreshVars, rPage, timeRange, autoRefresh, rTimers, rData>>

\* the Refresh button: onClick={loadAnalyticsData} / onClick={loadMonitoringData}
RefreshClick ==
    /\ rPage # None
    /\ StartLoad(rPage, timeRange, "button")
    /\ UNCHANGED <<nonRefreshVars, rPage, timeRange, autoRefresh, rTimers, rData>>

\* the response is shown only if no later load has started
ShownIfLatest(prev, response, latest) == IF latest THEN response ELSE prev

\* setAnalyticsData(response.data) / setSystemStatus(systemStatus); ...
Shown(prev, response, latest) == response

\* the call load i awaits resolved: getSystemMetrics is followed by
\* getSystemHealth; the last call's answer is put into the page's state
LoadStepOk(i) ==
    /\ rLoads[i].pc \in {"analytics", "metrics", "health"}
    /\ IF rLoads[i].pc = "metrics"
       THEN /\ rLoads' = [rLoads EXCEPT ![i].pc = "health"]
            /\ UNCHANGED <<rData, rIsLoading>>
       ELSE /\ rLoads' = [rLoads EXCEPT ![i].pc = "applied"]
            /\ rData' = Shown(rData, Present([time_range |-> rLoads[i].range, asOf |-> i]),
                              i = Len(rLoads))
            /\ rIsLoading' = FALSE
    /\ UNCHANGED <<nonRefreshVars, rPage, timeRange, autoRefresh, rTimers, rError>>

\* the call load i awaits threw. AnalyticsDashboard: setError(error.message);
\* APIMonitoring: console.error only; both: finally setIsLoading(false)
LoadFails(i) ==
    /\ rLoads[i].pc \in {"analytics", "metrics", "health"}
    /\ rLoads' = [rLoads EXCEPT ![i].pc = "failed"]
    /\ rError' = IF rPage = "analytics" THEN CONNECTIVITY_MESSAGE ELSE rError
    /\ rIsLoading' = FALSE
    /\ UNCHANGED <<nonRefreshVars, rPage, timeRange, autoRefresh, rTimers, rData>>

NextRefresh ==
    \/ RefreshMount
    \/ RefreshUnmount
    \/ SetTimeRange
    \/ ToggleAutoRefresh
    \/ IntervalFires
    \/ RefreshClick
    \/ \E i \in DOMAIN rLoads : LoadStepOk(i)
    \/ \E i \in DOMAIN rLoads : LoadFails(i)

(***************************************************************************)
(* BillingDashboard (components/stripe/BillingDashboard) under the         *)
(* StripeProvider (contexts/StripeContext). The provider's state is        *)
(* bdLoading, bdError and the data; bdDirty says it changed since the      *)
(* provider rendered last; bdPending counts the reads in flight.           *)
(***************************************************************************)
BillingReads == {"subscription", "paymentMethods", "invoices", "usage", "plans"}

InitBilling ==
    /\ bdMounted = FALSE
    /\ bdDirty = FALSE
    /\ bdRuns = 0
    /\ bdLoading = [r \in BillingReads |-> FALSE]
    /\ bdPending = [r \in BillingReads |-> 0]
    /\ bdError = None

\* the effect of BillingDashboard runs: the five loaders are called, each
\* does setIsXLoading(true); setError(null) and awaits its GET
RunLoaders ==
    /\ bdRuns < MaxEffectRuns
    /\ bdRuns' = bdRuns + 1
    /\ bdPending' = [r \in BillingReads |-> bdPending[r] + 1]
    /\ bdLoading' = [r \in BillingReads |-> TRUE]
    /\ bdError' = None
    /\ bdDirty' = (bdError # None \/ \E r \in BillingReads : ~bdLoading[r])

\* BillingDashboard is rendered for the first time and its effect runs
BillingMount ==
    /\ ~bdMounted
    /\ bdMounted' = TRUE
    /\ bdRuns = 0
    /\ RunLoaders
    /\ UNCHANGED nonBillingVars

\* the provider's state changed: StripeProvider renders again. The five
\* loaders are plain functions of its body, so the new context value holds
\* new ones; BillingDashboard renders with it, the deps of its effect have
\* changed and the effect runs again
ProviderRender ==
    /\ bdDirty
    /\ IF bdMounted
       THEN RunLoaders
       ELSE /\ bdDirty' = FALSE
            /\ UNCHANGED <<bdRuns, bdLoading, bdPending, bdError>>
    /\ UNCHANGED <<nonBillingVars, bdMounted>>

\* a GET resolved: setX(data); finally setIsXLoading(false)
ReadResolves(r) ==
    /\ bdPending[r] > 0
    /\ bdPending' = [bdPending EXCEPT ![r] = @ - 1]
    /\ bdLoading' = [bdLoading EXCEPT ![r] = FALSE]
    /\ bdDirty' = TRUE
    /\ UNCHANGED <<nonBillingVars, bdMounted, bdRuns, bdError>>

\* a GET threw: setError('Failed to load ...'); finally setIsXLoading(false)
ReadRejects(r) ==
    /\ bdPending[r] > 0
    /\ bdPending' = [bdPending EXCEPT ![r] = @ - 1]
    /\ bdLoading' = [bdLoading EXCEPT ![r] = FALSE]
    /\ bdError' = <<"Failed to load", r>>
    /\ bdDirty' = TRUE
    /\ UNCHANGED <<nonBillingVars, bdMounted, bdRuns>>

\* the dashboard is left, here once no read is in flight; the provider,
\* above it in the tree, stays
BillingUnmount ==
    /\ bdMounted
    /\ \A r \in BillingReads : bdPending[r] = 0
    /\ bdMounted' = FALSE
    /\ bdRuns' = 0
    /\ UNCHANGED <<nonBillingVars, bdDirty, bdLoading, bdPending, bdError>>

NextBilling ==
    \/ BillingMount
    \/ ProviderRender
    \/ \E r \in BillingReads : ReadResolves(r)
    \/ \E r \in BillingReads : ReadRejects(r)
    \/ BillingUnmount

(***************************************************************************)
(* Specifications                                                          *)
(***************************************************************************)
Init ==
    /\ InitPay /\ InitClient /\ InitAuth /\ InitAdmin /\ InitPages /\ InitModal
    /\ InitRefresh /\ InitBilling

SpecPay == Init /\ [][NextPay]_vars

SpecClient == Init /\ [][NextClient]_vars

SpecAuth == Init /\ [][NextAuth]_vars

SpecAdmin == Init /\ [][NextAdmin]_vars

SpecPages == Init /\ [][NextPages]_vars

SpecRefresh == Init /\ [][NextRefresh]_vars

SpecBilling == Init /\ [][NextBilling]_vars

SpecModal == Init /\ [][NextModal]_vars

(***************************************************************************)
(* Claims                                                                  *)
(***************************************************************************)
MappedStatuses == {400, 401, 403, 404, 422, 429, 500, 502, 503, 504}

\* the user-facing message table of the HTTP client wrapper
C1_TableMessage(status) ==
    CASE status = 400 -> "Invalid request. Please check your input and try again."
      [] status = 401 -> "Please log in to continue."
      [] status = 403 -> "You don't have permission to perform this action."
      [] status = 404 -> "The requested resource was not found."
      [] status = 422 -> "Please check your input and try again."
      [] status = 429 -> "Too many requests. Please wait a moment and try again."
      [] status = 500 -> "Server error. Please try again later."
      [] OTHER -> "Service temporarily unavailable. Please try again later."

\* C1: every non-2xx response with a status of the table makes request throw
\* an ApiError with the table's message for that status, the response's
\* status, and details that carry the backend payload.
C1_StatusMapped ==
    (cOutcome.kind = "response" /\ cOutcome.status \in MappedStatuses)
        => /\ cResult.kind = "ApiError"
           /\ cResult.status = cOutcome.status
           /\ cResult.message = C1_TableMessage(cOutcome.status)
           /\ cOutcome.body.kind = "object"
                => /\ cResult.details.detail = cOutcome.body.detail
                   /\ cResult.details.code = cOutcome.body.code
                   /\ cResult.details.data = cOutcome.body.data

HasSecret(inv) == inv.secret \notin {Pending, None, ""}

HasNoSecret(inv) == inv.secret \in {None, ""}

\* C2: a submit that got a client_secret and saw requires_action after its
\* first confirmation has made exactly two confirmation calls (one
\* additional) when it reaches success, in both in-page forms.
C2_OneAdditionalConfirmation ==
    \A s \in Slots :
        /\ (dInv[s].pc = "succeeded" /\ HasSecret(dInv[s]) /\ dInv[s].reqAction)
              => dInv[s].confirmCalls = 2
        /\ (kInv[s].pc = "succeeded" /\ HasSecret(kInv[s]) /\ kInv[s].reqAction)
              => kInv[s].confirmCalls = 2

\* C3: a submit whose createSubscription response has no client_secret has
\* reached success, the form shows the success step, and the submit made no
\* confirmCardPayment call.
C3_NoSecretNoConfirmation ==
    \A s \in Slots :
        /\ HasNoSecret(dInv[s])
              => dInv[s].pc = "succeeded" /\ dInv[s].confirmCalls = 0 /\ dStep = "success"
        /\ HasNoSecret(kInv[s])
              => /\ kInv[s].pc = "succeeded" /\ kInv[s].confirmCalls = 0
                 /\ kStep = "success" /\ kSuccess

C3_Witness ==
    /\ \E s \in Slots : HasNoSecret(dInv[s]) /\ dInv[s].subCalls = 1
    /\ \E s \in Slots : HasNoSecret(kInv[s]) /\ kInv[s].subCalls = 1

IsCardError(f) == f.kind = "sdk_error" /\ f.error.type = "card_error"

\* the card-error table: one message per listed code, otherwise the error's
\* own message or the generic one
C4_TableMessage(e) ==
    CASE e.code = "card_declined" -> CARD_DECLINED
      [] e.code = "insufficient_funds" -> INSUFFICIENT_FUNDS
      [] e.code = "expired_card" -> EXPIRED_CARD
      [] e.code = "incorrect_cvc" -> INCORRECT_CVC
      [] OTHER -> IF e.message \in {None, ""} THEN GENERIC_ERROR ELSE e.message

\* C4: when createPaymentMethod fails with a card error the submit ends in
\* the card-entry step with the table's message for the error code as the
\* form's error, and it has made no createSubscription call.
C4_CardErrorBackToPayment ==
    [][\A s \in Slots :
          /\ (dInv[s].pc = "tokenizing" /\ dInv'[s].pc = "failed" /\ IsCardError(dInv'[s].tokErr))
                => /\ dStep' = "card"
                   /\ dError' = C4_TableMessage(dInv'[s].tokErr.error)
                   /\ dInv'[s].subCalls = 0
          /\ (kInv[s].pc = "tokenizing" /\ kInv'[s].pc = "failed" /\ IsCardError(kInv'[s].tokErr))
                => /\ kStep' = "payment"
                   /\ kError' = C4_TableMessage(kInv'[s].tokErr.error)
                   /\ kInv'[s].subCalls = 0]_vars

C4_Witness ==
    /\ \E s \in Slots :
          /\ dInv[s].pc = "failed" /\ IsCardError(dInv[s].tokErr)
          /\ dInv[s].tokErr.error.code = "card_declined"
          /\ dError = CARD_DECLINED /\ dStep = "card"
    /\ \E s \in Slots :
          /\ kInv[s].pc = "failed" /\ IsCardError(kInv[s].tokErr)
          /\ kInv[s].tokErr.error.code = "expired_card"
          /\ kError = EXPIRED_CARD /\ kStep = "payment"

\* the step of the flow as the spec names it: DirectSubscriptionForm calls
\* the card-entry step 'card'; the checkout page shows the tokenizing step as
\* step 'payment' with isProcessing set and the confirming step as 'processing'
D_Phase == IF dStep = "card" THEN "payment" ELSE dStep

K_Phase ==
    IF kStep = "success" THEN "success"
    ELSE IF kStep = "processing" THEN "confirming"
    ELSE IF kIsProcessing THEN "processing"
    ELSE "payment"

C5_Allowed(p, q) ==
    \/ p = q
    \/ <<p, q>> \in {<<"payment", "processing">>, <<"processing", "confirming">>,
                    <<"confirming", "success">>}
    \/ (p # "success" /\ q = "payment")

\* C5: the step only moves payment -> processing -> confirming -> success or
\* from a non-success step back to payment, and every submit that fails ends
\* in the payment step with an error message set.
C5_StepOrder ==
    [][/\ C5_Allowed(D_Phase, D_Phase')
       /\ C5_Allowed(K_Phase, K_Phase')
       /\ \A s \in Slots :
             /\ (dInv'[s].pc = "failed" /\ dInv'[s] # dInv[s])
                   => D_Phase' = "payment" /\ dError' \notin {None, ""} /\ ~dIsLoading'
             /\ (kInv'[s].pc = "failed" /\ kInv'[s] # kInv[s])
                   => K_Phase' = "payment" /\ kError' \notin {None, ""}]_vars

C5_Witness ==
    /\ \E s \in Slots : dInv[s].pc = "failed" /\ dInv[s].confirmCalls = 1
    /\ dStep = "card" /\ dError # None
    /\ \E s \in Slots : kInv[s].pc = "failed" /\ kInv[s].subCalls = 1 /\ kInv[s].confirmCalls = 0
    /\ kStep = "payment" /\ kError # None

\* C6: a form has at most one submit in progress, so at most one
\* createSubscription call in flight, and while a submit is in progress the
\* form's submit control is disabled.
C6_OneSubmitInFlight ==
    /\ Cardinality({s \in Slots : Active(dInv[s])}) <= 1
    /\ Cardinality({s \in Slots : Active(kInv[s])}) <= 1
    /\ (\E s \in Slots : Active(dInv[s])) => dIsLoading
    /\ (\E s \in Slots : Active(kInv[s])) => kIsProcessing

C6_Witness ==
    /\ \E s \in Slots : dInv[s].pc = "subscribing"
    /\ \E s \in Slots : kInv[s].pc = "subscribing"

\* C7: logout leaves the access token and the API key removed from browser
\* storage and the in-memory user null.
C7_LogoutClearsBothKeys ==
    [][Logout => /\ storage'.access_token = None
                 /\ storage'.api_key = None
                 /\ user' = None]_vars

\* C8: a page load calls whoami exactly when an access token is stored, and
\* nothing else calls it during that mount.
C8_WhoamiIffStoredToken ==
    [][/\ (authPc = "unmounted" /\ authPc' # "unmounted")
             => /\ whoamiCalls' \in {0, 1}
                /\ whoamiCalls' = 1 <=> storage.access_token # None
       /\ (authPc # "unmounted" /\ authPc' # "unmounted")
             => whoamiCalls' = whoamiCalls]_vars

\* a page load that found a stored token and has its one whoami call in flight
C8_Witness ==
    /\ authPc = "verifying" /\ loading
    /\ whoamiCalls = 1
    /\ storage.access_token # None

\* C9: when the whoami call of the mount fails, the stored tokens are
\* cleared, the user is null, loading has finished, and whoami is not called
\* again.
C9_WhoamiFailureEndsAnonymous ==
    [][InitializeAuthCatch => /\ storage'.access_token = None
                              /\ storage'.refresh_token = None
                              /\ user' = None
                              /\ ~loading'
                              /\ whoamiCalls' = whoamiCalls]_vars

\* C10: whenever refreshToken returns false the stored tokens are removed
\* and the in-memory user is cleared.
C10_RefreshFailureLogsOut ==
    [][((RefreshToken \/ RefreshTokenCatch) /\ refreshResult' = "false")
          => /\ storage'.access_token = None
             /\ storage'.refresh_token = None
             /\ user' = None]_vars

\* the stored tokens and the user are the ones of some 2xx answer
StoredFrom(st, u, token, result) ==
    \E resp \in TokenResponses :
       /\ st.access_token = resp.access_token
       /\ st.refresh_token = resp.refresh_token
       /\ token = resp.access_token
       /\ u = resp.user
       /\ result = Success(resp.user)

C11_Succeeds ==
    /\ LoginOk => StoredFrom(storage', user', clientToken', loginResult')
    /\ RegisterOk => StoredFrom(storage', user', clientToken', registerResult')

C11_FailsWithMessage ==
    /\ LoginCatch => loginResult' = Failure("Login failed") /\ storage' = storage
    /\ RegisterCatch => registerResult' = Failure("Registration failed") /\ storage' = storage

\* C11 as stated: a successful login or register stores both tokens, sets the
\* user from the response and returns success; a failed one returns failure
\* with a message, stores no tokens and leaves the user unset (null).
C11_FailureLeavesUserUnset ==
    [][/\ C11_Succeeds
       /\ C11_FailsWithMessage
       /\ (LoginCatch \/ RegisterCatch) => user' = None]_vars

\* C11 amended: a successful login or register stores both tokens, sets the
\* user from the response and returns success; a failed one returns failure
\* with a message and leaves the stored tokens and the user as they were.
C11_LoginRegisterContract ==
    [][/\ C11_Succeeds
       /\ C11_FailsWithMessage
       /\ (LoginCatch \/ RegisterCatch) => user' = user]_vars

\* a login failed while a user was signed in, and a registration succeeded
C11_Witness ==
    /\ loginResult = Failure("Login failed")
    /\ error = "Login failed"
    /\ loginPc = "idle" /\ registerPc = "idle"
    /\ user # None
    /\ registerResult # Absent
    /\ registerResult # Failure("Registration failed")
    /\ storage.refresh_token # None

\* isAuthenticated = !!user; a sign-in is under way while login, register or
\* the whoami of the mount effect is awaited
Session ==
    IF user # None THEN "authenticated"
    ELSE IF authPc = "verifying" \/ loginPc = "calling" \/ registerPc = "calling"
         THEN "authenticating"
         ELSE "anonymous"

\* C12: within one page load the session never goes from anonymous straight
\* to authenticated, leaves authenticated only on logout or on a token
\* verification failure, and the user is only ever set by a successful login,
\* register or whoami response.
C12_SessionTransitions ==
    [][Mounted /\ Mounted' =>
          /\ Session = "anonymous" => Session' # "authenticated"
          /\ (Session = "authenticated" /\ Session' # "authenticated")
                => (Logout \/ RefreshTokenCatch \/ InitializeAuthCatch)
          /\ (user' # user /\ user' # None)
                => (LoginOk \/ RegisterOk \/ InitializeAuthOk)]_vars

ConnectivityError(result) ==
    /\ result.kind = "ApiError"
    /\ result.message = CONNECTIVITY_MESSAGE
    /\ result.status = 0

\* C13: a request whose fetch threw ends in the connectivity error, and a
\* request that received an HTTP response never does.
C13_FetchFailureIsConnectivityError ==
    /\ cOutcome.kind = "throws" => ConnectivityError(cResult)
    /\ cOutcome.kind = "response" => ~ConnectivityError(cResult)

SendsRequest ==
    \/ Login
    \/ Register
    \/ UpdateProfile
    \/ RefreshToken /\ refreshPc' = "calling"

\* C15: a request the hook sends carries the bearer header exactly when an
\* access token is stored and the API-key header exactly when an API key is
\* stored, the key stored through setApiKey included.
C15_HeadersFollowCredentials ==
    [][SendsRequest =>
          getHeaders(clientApiKey, clientToken)
             = getHeaders(storage.api_key, storage.access_token)]_vars

FinishedLoading == aPc # "unmounted" /\ ~adminState.isLoading

\* C16: once the hook has finished loading, a session that is authenticated
\* with a non-admin profile has been sent to /dashboard, a session that is
\* not authenticated has been sent to /auth/login, and for an authenticated
\* admin the hook has triggered no navigation.
C16_AdminRedirects ==
    /\ (FinishedLoading /\ authUser # None /\ adminState.user # Absent
           /\ ~adminState.user.is_admin)
          => (nav # <<>> /\ nav[Len(nav)] = "/dashboard")
    /\ (FinishedLoading /\ authUser = None)
          => (nav # <<>> /\ nav[Len(nav)] = "/auth/login")
    /\ (FinishedLoading /\ authUser # None /\ adminState.user # Absent
           /\ adminState.user.is_admin)
          => nav = <<>>

C17_Membership ==
    /\ \A name \in PermissionNames :
          hasPermission(name) <=>
             (adminState.user # Absent /\ name \in adminState.user.permissions)
    /\ (aPc # "loaded" \/ authUser = None) =>
          (adminState.user = Absent /\ \A name \in PermissionNames : ~hasPermission(name))

C17_Frame ==
    adminState'.permitted # adminState.permitted => (GetAdminUserOk \/ AdminUnload)

\* C17: hasPermission(name) is true exactly for the names in the permission
\* list of the fetched admin profile; before a profile is fetched, when
\* unauthenticated and after a failed fetch it is false for every name; and
\* its answers change only when a profile fetch completes.
C17_HasPermission == []C17_Membership /\ [][C17_Frame]_vars

\* a profile without a permissions field and one with two permissions
C17_Witness ==
    /\ aPc = "loaded"
    /\ hasPermission("admin:users:view")
    /\ ~hasPermission("admin:billing:manage")
    /\ adminState.isSuperAdmin

\* the Promise.all of the page's load settles in this step with a rejection
ParallelRejected ==
    /\ pgPc = "parallel"
    /\ pgPc' = "idle"
    /\ pgPage' = pgPage
    /\ \E read \in DOMAIN pgReads' : pgReads'[read].st = "rejected"

\* C18: when one of the reads a page combines with Promise.all rejects, the
\* load ends in the error state with that one message, and the page's data
\* is left as it was.
C18_RejectedReadEndsInError ==
    [][ParallelRejected =>
          /\ pgError' \in ReadErrors
          /\ ~pgIsLoading'
          /\ UNCHANGED pgData]_vars

\* a load of the page's list is started in this step
RefetchStarted ==
    /\ pgPc = "idle"
    /\ pgPc' \in {"parallel", "single", "profile"}

C20_HostedCheckout ==
    [][/\ HandleCheckoutRedirect =>
             /\ mStep = "payment" /\ mStep' = "processing"
             /\ mInFlight' = mInFlight + 1
             /\ mRequest' = [plan_id |-> mPlan,
                             success_url |-> "/dashboard/billing?success=true",
                             cancel_url |-> "/pricing?canceled=true"]
             /\ location' = location
       /\ \A response \in CheckoutResponses :
             (CheckoutSessionCreated(response) /\ response.url # None) =>
                (location' = response.url /\ mInFlight' = mInFlight - 1)
       /\ \A message \in CheckoutErrors :
             CheckoutSessionFailed(message) =>
                /\ mStep' = "payment"
                /\ mError' = message
                /\ ~mIsProcessing'
                /\ location' = location
       /\ location' # location =>
             (PricingPageLoad \/ \E response \in CheckoutResponses :
                                    CheckoutSessionCreated(response))]_vars

\* a first attempt failed and was reported, the second one reached checkout
C20_Witness ==
    /\ mReported = "HTTP 500"
    /\ mRequest = CheckoutRequest(2)
    /\ location = "https://checkout.stripe.com/c/pay/cs_test_b2"
    /\ mStep = "processing"

\* the card-error codes of the fixed table
C21_TableCodes == {"card_declined", "insufficient_funds", "expired_card", "incorrect_cvc"}

\* the message a form shows for the SDK error e of a failed tokenization
C21_Mapped(e, shown) ==
    /\ (e.type = "card_error" /\ e.code = "card_declined") => shown = CARD_DECLINED
    /\ (e.type = "card_error" /\ e.code = "insufficient_funds") => shown = INSUFFICIENT_FUNDS
    /\ (e.type = "card_error" /\ e.code = "expired_card") => shown = EXPIRED_CARD
    /\ (e.type = "card_error" /\ e.code = "incorrect_cvc") => shown = INCORRECT_CVC
    /\ e.type = "api_error" => shown = NETWORK_ERROR
    /\ e.type \notin {"card_error", "validation_error", "api_error"} => shown = GENERIC_ERROR

\* C21: payment errors are mapped through a fixed table: a card_error with
\* code card_declined, insufficient_funds, expired_card or incorrect_cvc
\* yields its own message (the four differ from each other and from the
\* generic ones), an api_error yields the network-error message, and an
\* error of an unrecognized type yields the generic fallback string.
C21_ErrorTable ==
    /\ [](Cardinality({CARD_DECLINED, INSUFFICIENT_FUNDS, EXPIRED_CARD, INCORRECT_CVC,
                       NETWORK_ERROR, GENERIC_ERROR}) = 6)
    /\ [][\A s \in Slots :
            /\ (dInv[s].pc = "tokenizing" /\ dInv'[s].pc = "failed"
                  /\ dInv'[s].tokErr.kind = "sdk_error")
                  => C21_Mapped(dInv'[s].tokErr.error, dError')
            /\ (kInv[s].pc = "tokenizing" /\ kInv'[s].pc = "failed"
                  /\ kInv'[s].tokErr.kind = "sdk_error")
                  => C21_Mapped(kInv'[s].tokErr.error, kError')]_vars

C21_Witness ==
    /\ \E s \in Slots :
          /\ dInv[s].pc = "failed" /\ dInv[s].tokErr.kind = "sdk_error"
          /\ dInv[s].tokErr.error.type = "api_error"
          /\ dInv[s].tokErr.error.message = "Your card number is incomplete."
          /\ dError = NETWORK_ERROR
    /\ \E s \in Slots :
          /\ kInv[s].pc = "failed" /\ kInv[s].tokErr.kind = "sdk_error"
          /\ kInv[s].tokErr.error.type = "invalid_request_error"
          /\ kInv[s].tokErr.error.message = "Your card number is incomplete."
          /\ kError = GENERIC_ERROR

\* C22: every network or backend error raised by a call made from a page is
\* caught at the call site and results in a non-empty error message in that
\* component's state, and the failed call is not retried: when the billing
\* page's customer-portal call fails, the page's error is set and no call
\* is in flight afterwards.
C22_CaughtErrorIsShown ==
    [][PortalCatch => (pgError' # "" /\ mutPc' = NoMutation)]_vars

\* the submit before this one got its subscription created on the backend
\* and then failed (at a confirmation step)
C23_EarlierSubscriptionCreated ==
    Len(kSubRequests) >= 1 /\ kSubRequests[Len(kSubRequests)].answered

\* C23: no idempotency key is sent with subscription creation and the client
\* does not deduplicate across submits: every request body holds plan_id and
\* payment_method_id only; a submit whose tokenization succeeds always POSTs
\* a new createSubscription for the same plan, whatever was sent before; and
\* after a failure the submit button is enabled again, also when the earlier
\* createSubscription had succeeded and only the confirmation failed.
C23_NoDeduplication ==
    /\ [](\A i \in DOMAIN kSubRequests :
             /\ DOMAIN kSubRequests[i].body = {"plan_id", "payment_method_id"}
             /\ kSubRequests[i].body.plan_id = kSubRequests[1].body.plan_id)
    /\ []((\E s \in Slots : kInv[s].pc = "failed" /\ kInv[s].confirmCalls >= 1)
             => (C23_EarlierSubscriptionCreated /\ K_SubmitEnabled))
    /\ [][\A s \in Slots :
            (kInv[s].pc = "tokenizing" /\ kInv'[s].pc = "subscribing")
               => /\ Len(kSubRequests') = Len(kSubRequests) + 1
                  /\ kInv'[s].subCalls = 1]_vars

\* the second createSubscription is awaited while the backend has already
\* created a subscription for the first, whose confirmation failed
C23_Witness ==
    /\ Len(kSubRequests) = 2
    /\ kSubRequests[1].answered /\ ~kSubRequests[2].answered
    /\ kSubRequests[1].body.plan_id = kSubRequests[2].body.plan_id
    /\ \E s \in Slots : kInv[s].pc = "subscribing" /\ kInv[s].subCalls = 1
    /\ kStep = "processing"

\* C24: the API client automatically retries a request that fails with a
\* network error: a call of request whose fetch threw makes more than one
\* fetch call.
C24_NetworkErrorIsRetried ==
    [][(requestCalls' = requestCalls + 1 /\ cOutcome'.kind = "throws")
          => fetchCalls' > fetchCalls + 1]_vars

C26_Refreshing == rPage # None /\ (rPage = "monitoring" => autoRefresh)

\* C26: auto-refresh uses a fixed 30-second interval timer that is cleared
\* on unmount: at most one interval is active, its period is 30000 ms, it is
\* active only while the page is mounted with auto-refresh on, and every
\* load an interval starts is started in such a state.
C26_IntervalCleared ==
    /\ [](/\ Len(rTimers) <= 1
          /\ \A k \in DOMAIN rTimers : rTimers[k] = 30000
          /\ (rTimers # <<>>) <=> C26_Refreshing)
    /\ [][(Len(rLoads') = Len(rLoads) + 1 /\ rLoads'[Len(rLoads')].by = "interval")
             => (C26_Refreshing /\ rPage' = rPage)]_vars

\* APIMonitoring after an interval started a load and auto-refresh was then
\* switched off: no interval is left
C26_Witness ==
    /\ rPage = "monitoring"
    /\ ~autoRefresh
    /\ rTimers = <<>>
    /\ \E i \in DOMAIN rLoads : rLoads[i].by = "interval"

\* an auth operation of the hook runs to its end in this step
C27_OperationCompletes ==
    /\ authPc' # "unmounted"
    /\ \/ authPc # "ready" /\ authPc' = "ready"
       \/ loginPc = "calling" /\ loginPc' = "idle"
       \/ registerPc = "calling" /\ registerPc' = "idle"
       \/ refreshPc = "calling" /\ refreshPc' = "idle"
       \/ Logout

\* C27: after every auth operation completes (login, register, logout,
\* refreshToken, the mount-time token verification and its failure path) the
\* access token the ApiClient holds in memory equals the one in browser
\* storage, so no later request carries a bearer token cleared from storage.
C27_ClientTokenMatchesStorage ==
    [][C27_OperationCompletes => clientToken' = storage'.access_token]_vars

\* C28: after logout is invoked from any component (the header), every
\* component that reads the auth hook observes isAuthenticated = false and
\* user = null: after the Header's logout the admin hook's own auth instance
\* has no user and the admin state is not authenticated.
C28_LogoutReachesEveryConsumer ==
    [][HeaderLogout => (user' = None /\ authUser' = None /\ ~adminState'.isAuthenticated)]_vars

\* C29: a user with a valid stored access token is never redirected to
\* /auth/login while the session is still being restored: while the
\* mount-time whoami call is awaited no push to /auth/login has been made.
C29_NoLoginRedirectWhileRestoring ==
    aPc = "verifying" => \A k \in DOMAIN nav : nav[k] # "/auth/login"

\* C30: mounting the billing dashboard issues each of its five context reads
\* exactly once; without a further user action the reads are not issued
\* again: while the dashboard stays mounted its effect has run once.
C30_ReadsIssuedOncePerMount ==
    bdMounted => bdRuns = 1

====
